---- MODULE Spec2Model ----
(***************************************************************************)
(* The Coding Orchestrator of projectplanner: the approval-gated workflow  *)
(* (orchestrator/workflow.py), its coverage graph                          *)
(* (orchestrator/graph_store.py), the model-backed agents as far as the    *)
(* workflow observes them, and the session registry of                     *)
(* services/orchestrator.py.                                               *)
(*                                                                         *)
(* Strings are sequences of one-character strings, so that lower(),        *)
(* strip(), the slug regex and the substring test are computed, not        *)
(* assumed.  Object identity (a BlueprintSummary, a MilestonePlan) is an   *)
(* allocation number: the field "gen" of the value; a plan and a prompt    *)
(* bundle also carry the gen of the summary (and plan) they were generated *)
(* from.  The timestamps of a session (created_at, updated_at, _touch) and *)
(* the log are not modelled.                                               *)
(*                                                                         *)
(* Spec is the service under a single caller, each call one step.          *)
(* SpecConc is the service under several threads, each call cut at its     *)
(* model calls.  SpecLock is the registry with its RLock, each call cut    *)
(* where the lock is taken and released.  SpecAgents is the Coordinator,   *)
(* the Planner, the Decomposer and the MilestonesAgent, each cut at its    *)
(* calls of create_chat_completion.  SpecGraph is one orchestrator and the *)
(* GraphStore it owns, each method call one step.                          *)
(* SpecFunctions is the functions of the agents and of the review service  *)
(* (_sanitize_id, _compress_chunks, evaluate_step, ReviewerAgent.review),  *)
(* each call one step on arguments drawn from bounded sets.                *)
(***************************************************************************)
EXTENDS Integers, Sequences, FiniteSets, TLC

(***************************************************************************)
(* Bounds of the model.                                                    *)
(***************************************************************************)
\* sessions (run ids) ever created by the single caller
MaxRuns == 1
\* successful workflow calls (regenerate, approve, generate) on existing sessions in
\* one behaviour; calls that fail or only read are not limited
MaxCalls == 5
\* callers running service calls at once (SpecConc)
NumThreads == 2
\* sessions (run ids) ever created by the concurrent callers (SpecConc)
MaxConcRuns == 2
\* workflow calls (regenerate, approve, generate) the concurrent callers start in one
\* behaviour (SpecConc)
MaxConcCalls == 4
\* sessions (run ids) ever created (SpecLock)
MaxLockRuns == 2
\* workflow calls (regenerate, approve, generate) started in one behaviour (SpecLock)
MaxLockCalls == 4
\* token budgets 1..MaxTokens are tried as MAX_COMPLETION_TOKENS (beside the default)
MaxTokens == 2400
\* calls made on one orchestrator and its GraphStore in one behaviour (SpecGraph)
MaxGraphOps == 4
\* length of the candidates handed to _sanitize_id (SpecFunctions)
MaxIdLen == 4

\* length of a chunk handed to _compress_chunks (SpecFunctions)
MaxChunkLen == 4
\* ceilings 0..MaxLimit are handed to _compress_chunks (SpecFunctions)
MaxLimit == 5

\* steps in a list handed to ReviewerAgent.review (SpecFunctions)
MaxReviewSteps == 3

\* workflow.py: MAX_CANDIDATE_PATH_CHARS
MAX_CANDIDATE_PATH_CHARS == 512

\* Optional[T]: None is the empty sequence, a value x is <<x>>
None == <<>>
Some(x) == <<x>>
\* "if not x" / "x is None" on an Optional holding a model object
IsNone(x) == x = <<>>
Val(x) == x[1]

(***************************************************************************)
(* Characters and strings.                                                 *)
(***************************************************************************)
UpperChars == {"A", "P", "I", "D", "B"}
LowerChars == {"a", "p", "i", "d", "b", "x", "m"}
DigitChars == {"0", "1", "2", "3", "4", "5", "6", "7", "8", "9"}

\* str.lower() on one character
LowerChar(c) ==
    CASE c = "A" -> "a"
      [] c = "P" -> "p"
      [] c = "I" -> "i"
      [] c = "D" -> "d"
      [] c = "B" -> "b"
      [] OTHER -> c

\* code point, the order sorted() uses on str
CharCode(c) ==
    CASE c = "\n" -> 10
      [] c = " " -> 32
      [] c = "!" -> 33
      [] c = "-" -> 45
      [] c = "0" -> 48
      [] c = "1" -> 49
      [] c = "2" -> 50
      [] c = "3" -> 51
      [] c = "4" -> 52
      [] c = "5" -> 53
      [] c = "6" -> 54
      [] c = "7" -> 55
      [] c = "8" -> 56
      [] c = "9" -> 57
      [] c = "A" -> 65
      [] c = "B" -> 66
      [] c = "D" -> 68
      [] c = "I" -> 73
      [] c = "P" -> 80
      [] c = "a" -> 97
      [] c = "b" -> 98
      [] c = "d" -> 100
      [] c = "i" -> 105
      [] c = "m" -> 109
      [] c = "p" -> 112
      [] c = "x" -> 120
      [] OTHER -> 127

IsSpace(c) == c \in {" ", "\n"}

\* str.lower()
Lower(s) == [i \in 1..Len(s) |-> LowerChar(s[i])]

RECURSIVE LStrip(_)
LStrip(s) == IF s # <<>> /\ IsSpace(Head(s)) THEN LStrip(Tail(s)) ELSE s

RECURSIVE RStrip(_)
RStrip(s) ==
    IF s # <<>> /\ IsSpace(s[Len(s)]) THEN RStrip(SubSeq(s, 1, Len(s) - 1)) ELSE s

\* str.strip()
Strip(s) == RStrip(LStrip(s))

\* pat in text
Contains(text, pat) ==
    \E i \in 1..(Len(text) - Len(pat) + 1) : SubSeq(text, i, i + Len(pat) - 1) = pat

\* s < t on str: lexicographic by code point
RECURSIVE StrLess(_, _)
StrLess(s, t) ==
    IF t = <<>> THEN FALSE
    ELSE IF s = <<>> THEN TRUE
    ELSE IF CharCode(Head(s)) # CharCode(Head(t)) THEN CharCode(Head(s)) < CharCode(Head(t))
    ELSE StrLess(Tail(s), Tail(t))

RECURSIVE InsertSorted(_, _)
InsertSorted(x, sorted) ==
    IF sorted = <<>> THEN <<x>>
    ELSE IF StrLess(x, Head(sorted)) THEN <<x>> \o sorted
    ELSE <<Head(sorted)>> \o InsertSorted(x, Tail(sorted))

\* sorted(list of str): stable, ascending
RECURSIVE Sorted(_)
Sorted(names) ==
    IF names = <<>> THEN <<>>
    ELSE InsertSorted(names[Len(names)], Sorted(SubSeq(names, 1, Len(names) - 1)))

Range(s) == {s[i] : i \in 1..Len(s)}

(***************************************************************************)
(* GraphStore (orchestrator/graph_store.py).  A store is its _nodes dict,  *)
(* a sequence of nodes in insertion order.                                 *)
(***************************************************************************)
IsSlugChar(c) == c \in LowerChars \cup DigitChars

\* re.sub(r"[^a-z0-9]+", "-", value): each run of other characters becomes one "-"
RECURSIVE SubRuns(_, _)
SubRuns(s, inRun) ==
    IF s = <<>> THEN <<>>
    ELSE IF IsSlugChar(Head(s)) THEN <<Head(s)>> \o SubRuns(Tail(s), FALSE)
    ELSE IF inRun THEN SubRuns(Tail(s), TRUE)
    ELSE <<"-">> \o SubRuns(Tail(s), TRUE)

RECURSIVE StripHyphens(_)
StripHyphens(s) ==
    IF s # <<>> /\ Head(s) = "-" THEN StripHyphens(Tail(s))
    ELSE IF s # <<>> /\ s[Len(s)] = "-" THEN StripHyphens(SubSeq(s, 1, Len(s) - 1))
    ELSE s

NodeSlug == <<"n", "o", "d", "e">>

\* GraphStore._slugify
Slugify(value) ==
    LET normalized == StripHyphens(SubRuns(Lower(value), FALSE))
    IN  IF normalized = <<>> THEN NodeSlug ELSE normalized

\* GraphNode(id=slug, name=name)
GraphNode(slug, name) ==
    [id |-> slug, name |-> name, description |-> None, milestone_ids |-> <<>>]

\* GraphStore.__init__
EmptyStore == <<>>

NodeIds(store) == {store[i].id : i \in 1..Len(store)}

\* GraphStore.load_components
RECURSIVE load_components(_, _)
load_components(store, components) ==
    IF components = <<>> THEN store
    ELSE LET name == Strip(Head(components))
             slug == Slugify(name)
         IN  IF name = <<>> \/ slug \in NodeIds(store)
             THEN load_components(store, Tail(components))
             ELSE load_components(Append(store, GraphNode(slug, name)), Tail(components))

\* the inner loop without the membership test: the id is appended on every hit
AssignOne_appending(store, milestone) ==
    LET text == Lower(milestone.details \o <<" ">> \o milestone.context)
    IN  [i \in 1..Len(store) |->
            IF Contains(text, Lower(store[i].name))
            THEN [store[i] EXCEPT !.milestone_ids = Append(@, milestone.milestone_id)]
            ELSE store[i]]

\* one milestone of GraphStore.assign_milestones: the inner loop over the nodes
AssignOne(store, milestone) ==
    LET text == Lower(milestone.details \o <<" ">> \o milestone.context)
    IN  [i \in 1..Len(store) |->
            IF Contains(text, Lower(store[i].name))
               /\ milestone.milestone_id \notin Range(store[i].milestone_ids)
            THEN [store[i] EXCEPT !.milestone_ids = Append(@, milestone.milestone_id)]
            ELSE store[i]]

\* GraphStore.assign_milestones
RECURSIVE assign_milestones(_, _)
assign_milestones(store, milestones) ==
    IF milestones = <<>> THEN store
    ELSE assign_milestones(AssignOne(store, Head(milestones)), Tail(milestones))

\* "if description": it is given and not empty
Truthy(optional) == ~IsNone(optional) /\ Val(optional) # <<>>

\* an upsert that writes a new node over the one that has the slug
upsert_node_overwriting(store, name, description) ==
    LET slug == Slugify(name)
        node == [GraphNode(slug, Strip(name)) EXCEPT !.description = description]
    IN  IF slug \in NodeIds(store)
        THEN [i \in 1..Len(store) |-> IF store[i].id = slug THEN node ELSE store[i]]
        ELSE Append(store, node)

\* GraphStore.upsert_node: the store afterwards
upsert_node(store, name, description) ==
    LET slug == Slugify(name)
    IN  IF slug \in NodeIds(store)
        THEN [i \in 1..Len(store) |->
                 IF store[i].id = slug /\ Truthy(description) /\ ~Truthy(store[i].description)
                 THEN [store[i] EXCEPT !.description = description]
                 ELSE store[i]]
        ELSE Append(store, [GraphNode(slug, Strip(name)) EXCEPT !.description = description])

\* the assignment without the membership test
set_assignment_appending(store, node_id, milestone_id) ==
    [i \in 1..Len(store) |->
        IF store[i].id = node_id
        THEN [store[i] EXCEPT !.milestone_ids = Append(@, milestone_id)]
        ELSE store[i]]

\* GraphStore.set_assignment: a missing node is logged and nothing changes
set_assignment(store, node_id, milestone_id) ==
    [i \in 1..Len(store) |->
        IF store[i].id = node_id /\ milestone_id \notin Range(store[i].milestone_ids)
        THEN [store[i] EXCEPT !.milestone_ids = Append(@, milestone_id)]
        ELSE store[i]]

\* GraphStore.coverage
coverage(store) ==
    [covered |-> [n \in 1..Len(SelectSeq(store, LAMBDA nd : nd.milestone_ids # <<>>)) |->
                     SelectSeq(store, LAMBDA nd : nd.milestone_ids # <<>>)[n].name],
     uncovered |-> [n \in 1..Len(SelectSeq(store, LAMBDA nd : nd.milestone_ids = <<>>)) |->
                     SelectSeq(store, LAMBDA nd : nd.milestone_ids = <<>>)[n].name]]

\* a snapshot that lists the names in the order of the dict
snapshot_unsorted(store) ==
    [covered_nodes |-> coverage(store).covered,
     uncovered_nodes |-> coverage(store).uncovered,
     notes |-> None]

\* GraphStore.snapshot (notes=None)
snapshot(store) ==
    [covered_nodes |-> Sorted(coverage(store).covered),
     uncovered_nodes |-> Sorted(coverage(store).uncovered),
     notes |-> None]

(***************************************************************************)
(* The agents, as the workflow observes them.  What the language model     *)
(* answers is an input of the operator; a failed or absent model is the    *)
(* heuristic path of the agent, and yields a value of the same shape.      *)
(***************************************************************************)
\* numeric insertion, for sorted(..., key=milestone_id)
RECURSIVE InsertId(_, _)
InsertId(x, sorted) ==
    IF sorted = <<>> THEN <<x>>
    ELSE IF x < Head(sorted) THEN <<x>> \o sorted
    ELSE <<Head(sorted)>> \o InsertId(x, Tail(sorted))

RECURSIVE SortedIds(_)
SortedIds(ids) ==
    IF ids = <<>> THEN <<>>
    ELSE InsertId(ids[Len(ids)], SortedIds(SubSeq(ids, 1, Len(ids) - 1)))

\* list(dict.fromkeys(names)): first occurrences, in order
RECURSIVE Dedupe(_)
Dedupe(names) ==
    IF names = <<>> THEN <<>>
    ELSE LET front == Dedupe(SubSeq(names, 1, Len(names) - 1))
             x == names[Len(names)]
         IN  IF x \in Range(front) THEN front ELSE Append(front, x)

\* MilestonesAgent.summarize_blueprint: the BlueprintSummary, with the components
\* the model (or _heuristic_summary) extracted; gen is the identity of the object
summarize_blueprint(gen, components) ==
    [gen |-> gen, components |-> components]

\* MilestonesAgent.generate_milestones: the MilestonePlan drawn from the summary it
\* was handed; gen is the identity of the object
agent_generate_milestones(gen, summary, milestones) ==
    [gen |-> gen, summary |-> summary.gen, milestones |-> milestones]

\* a merge that takes the model's list in place of the baseline
_merge_lists_replacing(base, extra) ==
    SelectSeq([i \in 1..Len(extra) |-> Strip(extra[i])], LAMBDA n : n # <<>>)

\* GraphAuditAgent._merge_lists
_merge_lists(base, extra) ==
    base \o SelectSeq([i \in 1..Len(extra) |-> Strip(extra[i])], LAMBDA n : n # <<>>)

\* GraphAuditAgent._heuristic_snapshot
_heuristic_snapshot(snap) ==
    [covered_nodes |-> snap.covered_nodes,
     uncovered_nodes |-> snap.uncovered_nodes,
     notes |-> IF snap.uncovered_nodes # <<>> /\ IsNone(snap.notes)
               THEN Some("heuristic_uncovered")
               ELSE IF IsNone(snap.notes) THEN Some("heuristic_inferred") ELSE snap.notes]

\* the part of GraphAuditAgent.audit after the model call: response is None when
\* there is no client or the call or its parsing failed
audit_merge(baseline, response) ==
    IF IsNone(response) THEN _heuristic_snapshot(baseline)
    ELSE [covered_nodes |-> Sorted(Dedupe(_merge_lists(baseline.covered_nodes,
                                                       Val(response).covered_nodes))),
          uncovered_nodes |-> Sorted(Dedupe(_merge_lists(baseline.uncovered_nodes,
                                                         Val(response).uncovered_nodes))),
          notes |-> IF IsNone(Val(response).notes) THEN baseline.notes
                    ELSE Val(response).notes]

\* GraphAuditAgent.audit
audit(graph_store, response) == audit_merge(snapshot(graph_store), response)

\* AgentPlanner.generate_prompts: one prompt per milestone, in milestone_id order,
\* written for the summary and the milestones it was handed
agent_generate_prompts(summary, plan, graph_snapshot) ==
    [summary |-> summary.gen,
     plan |-> plan.gen,
     milestone_ids |-> SortedIds([i \in 1..Len(plan.milestones) |->
                                     plan.milestones[i].milestone_id])]

(***************************************************************************)
(* CodingOrchestrator (orchestrator/workflow.py).  A method is an operator *)
(* from the object (and the inputs) to its outcome: the object afterwards, *)
(* and either the value returned or the exception raised.                  *)
(***************************************************************************)
\* CodingOrchestrator.__init__
NewOrchestrator(run_id) ==
    [run_id |-> run_id,
     graph_store |-> EmptyStore,
     blueprint_text |-> None,
     summary |-> None,
     summary_approved |-> FALSE,
     milestones |-> None,
     milestones_approved |-> FALSE,
     graph_snapshot |-> None,
     prompts |-> None]

Returned(o, value) == [orch |-> o, raised |-> "", msg |-> "", value |-> <<value>>]
Raised(o, kind, msg) == [orch |-> o, raised |-> kind, msg |-> msg, value |-> <<>>]

\* CodingOrchestrator._read_blueprint on a str: file says what the file system holds
\* at the path the text may name ("absent", "empty" or "text")
HasLineBreak(s) == \E i \in 1..Len(s) : s[i] = "\n"

FileText == <<"d", "b">>

_read_blueprint(source, file) ==
    LET stripped == Strip(source)
        looks_like_path == Len(stripped) <= MAX_CANDIDATE_PATH_CHARS /\ ~HasLineBreak(source)
    IN  IF stripped = <<>> THEN [raised |-> "ValueError", msg |-> "empty_blueprint", text |-> <<>>]
        ELSE IF looks_like_path /\ file = "empty"
             THEN [raised |-> "ValueError", msg |-> "empty_file", text |-> <<>>]
        ELSE IF looks_like_path /\ file = "text"
             THEN [raised |-> "", msg |-> "", text |-> FileText]
        ELSE [raised |-> "", msg |-> "", text |-> source]

\* ingest_blueprint, lines 51-52: the text is read and kept
ingest_begin(o, text) == [o EXCEPT !.blueprint_text = Some(text)]

\* a reset that forgets the prompts: ingest_finish without line 66
ingest_finish_keeping_prompts(o, summary) ==
    [o EXCEPT !.summary = Some(summary),
              !.summary_approved = FALSE,
              !.milestones = None,
              !.milestones_approved = FALSE,
              !.graph_snapshot = None,
              !.graph_store = load_components(EmptyStore, summary.components)]

\* a reset that forgets the approval of the plan: ingest_finish without line 65
ingest_finish_keeping_approval(o, summary) ==
    [o EXCEPT !.summary = Some(summary),
              !.summary_approved = FALSE,
              !.milestones = None,
              !.prompts = None,
              !.graph_snapshot = None,
              !.graph_store = load_components(EmptyStore, summary.components)]

\* ingest_blueprint, lines 62-69: the summary is stored and everything downstream reset
ingest_finish(o, summary) ==
    [o EXCEPT !.summary = Some(summary),
              !.summary_approved = FALSE,
              !.milestones = None,
              !.milestones_approved = FALSE,
              !.prompts = None,
              !.graph_snapshot = None,
              !.graph_store = load_components(EmptyStore, summary.components)]

\* an ingest that returns when the blueprint is rejected, with nothing stored
ingest_blueprint_swallowing(o, source, file, gen, components) ==
    LET read == _read_blueprint(source, file)
        summary == summarize_blueprint(gen, components)
    IN  IF read.raised # "" THEN Returned(o, summary)
        ELSE Returned(ingest_finish(ingest_begin(o, read.text), summary), summary)

\* CodingOrchestrator.ingest_blueprint
ingest_blueprint(o, source, file, gen, components) ==
    LET read == _read_blueprint(source, file)
        summary == summarize_blueprint(gen, components)
    IN  IF read.raised # "" THEN Raised(o, read.raised, read.msg)
        ELSE Returned(ingest_finish(ingest_begin(o, read.text), summary), summary)

\* an approval that also drops the plan
approve_summary_resetting(o, approved) ==
    IF IsNone(o.summary) THEN Raised(o, "RuntimeError", "no_summary")
    ELSE Returned([o EXCEPT !.summary_approved = approved, !.milestones = None], None)

\* CodingOrchestrator.approve_summary
approve_summary(o, approved) ==
    IF IsNone(o.summary) THEN Raised(o, "RuntimeError", "no_summary")
    ELSE Returned([o EXCEPT !.summary_approved = approved], None)

\* the preconditions without line 100: the approval is not looked at
generate_milestones_check_unapproved(o) ==
    IF IsNone(o.summary) THEN "no_summary" ELSE ""

\* generate_milestones, lines 98-101: the preconditions
generate_milestones_check(o) ==
    IF IsNone(o.summary) THEN "no_summary"
    ELSE IF ~o.summary_approved THEN "summary_not_approved"
    ELSE ""

\* generate_milestones, lines 108-109: the plan is stored and linked into the graph
store_plan(o, plan) ==
    [o EXCEPT !.milestones = Some(plan),
              !.graph_store = assign_milestones(@, plan.milestones)]

\* generate_milestones, line 116
store_snapshot(o, snap) == [o EXCEPT !.graph_snapshot = Some(snap)]

\* CodingOrchestrator.generate_milestones
generate_milestones(o, gen, milestones, response) ==
    IF generate_milestones_check(o) # ""
    THEN Raised(o, "RuntimeError", generate_milestones_check(o))
    ELSE LET plan == agent_generate_milestones(gen, Val(o.summary), milestones)
             o1 == store_plan(o, plan)
             snap == audit(o1.graph_store, response)
         IN  Returned(store_snapshot(o1, snap), <<plan, snap>>)

\* an approval that is refused once prompts exist
approve_milestones_before_prompts(o, approved) ==
    IF IsNone(o.milestones) \/ ~IsNone(o.prompts)
    THEN Raised(o, "RuntimeError", "no_milestones")
    ELSE Returned([o EXCEPT !.milestones_approved = approved], None)

\* CodingOrchestrator.approve_milestones
approve_milestones(o, approved) ==
    IF IsNone(o.milestones) THEN Raised(o, "RuntimeError", "no_milestones")
    ELSE Returned([o EXCEPT !.milestones_approved = approved], None)

\* the preconditions without line 149: the approval is not looked at
generate_prompts_check_unapproved(o) ==
    IF IsNone(o.summary) THEN "no_summary"
    ELSE IF IsNone(o.milestones) THEN "no_milestones"
    ELSE ""

\* generate_prompts, lines 145-150: the preconditions
generate_prompts_check(o) ==
    IF IsNone(o.summary) THEN "no_summary"
    ELSE IF IsNone(o.milestones) THEN "no_milestones"
    ELSE IF ~o.milestones_approved THEN "milestones_not_approved"
    ELSE ""

\* CodingOrchestrator.current_graph_snapshot, and "self._graph_snapshot or
\* self._graph_store.snapshot()" of generate_prompts and finalize
current_graph_snapshot(o) ==
    IF ~IsNone(o.graph_snapshot) THEN Val(o.graph_snapshot) ELSE snapshot(o.graph_store)

\* generate_prompts, line 163
store_prompts(o, prompts) == [o EXCEPT !.prompts = Some(prompts)]

\* CodingOrchestrator.generate_prompts
generate_prompts(o) ==
    IF generate_prompts_check(o) # ""
    THEN Raised(o, "RuntimeError", generate_prompts_check(o))
    ELSE LET prompts == agent_generate_prompts(Val(o.summary), Val(o.milestones),
                                               current_graph_snapshot(o))
         IN  Returned(store_prompts(o, prompts), prompts)

\* a finalize that hands the prompts over and keeps none
finalize_consuming(o) ==
    IF IsNone(o.summary) \/ IsNone(o.milestones) \/ IsNone(o.prompts)
    THEN Raised(o, "RuntimeError", "workflow_incomplete")
    ELSE Returned([o EXCEPT !.prompts = None],
                  [summary |-> Val(o.summary),
                   milestones |-> Val(o.milestones),
                   prompts |-> Val(o.prompts),
                   graph_report |-> IF ~IsNone(o.graph_snapshot) THEN Val(o.graph_snapshot)
                                    ELSE snapshot(o.graph_store)])

\* CodingOrchestrator.finalize
finalize(o) ==
    IF IsNone(o.summary) \/ IsNone(o.milestones) \/ IsNone(o.prompts)
    THEN Raised(o, "RuntimeError", "workflow_incomplete")
    ELSE Returned(o, [summary |-> Val(o.summary),
                      milestones |-> Val(o.milestones),
                      prompts |-> Val(o.prompts),
                      graph_report |-> current_graph_snapshot(o)])

\* regenerate_summary, lines 196-197: the precondition
regenerate_summary_check(o) ==
    IF IsNone(o.blueprint_text) \/ Val(o.blueprint_text) = <<>> THEN "no_blueprint" ELSE ""

\* CodingOrchestrator.regenerate_summary
regenerate_summary(o, file, gen, components) ==
    IF regenerate_summary_check(o) # ""
    THEN Raised(o, "RuntimeError", regenerate_summary_check(o))
    ELSE ingest_blueprint(o, Val(o.blueprint_text), file, gen, components)

\* the properties summary_ready, summary_approved, milestones_ready,
\* milestones_approved and prompts_ready
Status(o) ==
    [summary_ready |-> ~IsNone(o.summary),
     summary_approved |-> o.summary_approved,
     milestones_ready |-> ~IsNone(o.milestones),
     milestones_approved |-> o.milestones_approved,
     prompts_ready |-> ~IsNone(o.prompts)]

(***************************************************************************)
(* What the environment supplies: blueprint payloads, the file system, and *)
(* the answers of the language model.                                      *)
(***************************************************************************)
Api == <<"A", "p", "i">>
API == <<"A", "P", "I">>
Db == <<"D", "b">>
Bang == <<"!">>

BlankText == <<" ">>
TextA == <<"a">>

\* decode_blueprint_payload(payload) -> (text, source)
Payloads == {[text |-> BlankText, source |-> None], [text |-> TextA, source |-> None]}

FileStates == {"absent", "empty"}

\* summary.components, as _ensure_list or _heuristic_summary leave them
ComponentLists == {<<Api, Db>>, <<Api, API, Bang>>}

Milestone(id, details, context) ==
    [milestone_id |-> id, details |-> details, context |-> context]

\* plan.milestones: five milestones, as _ensure_five_milestones or
\* _heuristic_milestones leave them
MilestoneLists ==
    {<<Milestone(1, <<"a", "p", "i">>, <<>>), Milestone(2, <<"x">>, <<>>),
       Milestone(3, <<"x">>, <<"D", "B">>), Milestone(4, <<"x">>, <<>>),
       Milestone(5, <<"x">>, <<>>)>>,
     <<Milestone(1, <<"x">>, <<>>), Milestone(2, <<"x">>, <<>>),
       Milestone(3, <<"x">>, <<>>), Milestone(4, <<"x">>, <<>>),
       Milestone(5, <<"x">>, <<>>)>>}

\* the audit model's parsed answer, or None when it is absent or fails
AuditResponses ==
    {None,
     Some([covered_nodes |-> <<Api>>, uncovered_nodes |-> <<>>, notes |-> Some("model")])}

RunIds == 1..MaxRuns

\* the run ids callers address: those handed out, and one that never is
Targets == 1..(MaxRuns + 1)

(***************************************************************************)
(* State.                                                                  *)
(***************************************************************************)
VARIABLES
    sessions,       \* _SESSIONS: run id -> session (its orchestrator, by run id)
    orch,           \* the live CodingOrchestrator objects, by run id
    nextRun,        \* run ids handed out so far (a run id is never reused)
    calls,          \* successful workflow calls on existing sessions so far
    approvedPlans,  \* history, per run: approve_milestones(True) was called on the current plan
    last,           \* the service call that has completed and its outcome, until the caller
                    \* takes it (NoCall between calls)
    th,             \* the service calls in flight (concurrent specifications)
    lock,           \* _LOCK: the thread that owns it and how often it has entered (SpecLock)
    config,         \* what the stage agents are built with: MAX_COMPLETION_TOKENS and
                    \* whether OPENAI_API_KEY gives them a client (SpecAgents)
    agent,          \* the stage agent call in progress (SpecAgents)
    graph           \* one CodingOrchestrator whose GraphStore is also called directly, and
                    \* the calls made on them (SpecGraph)

vars ==
    <<sessions, orch, nextRun, calls, approvedPlans, last, th, lock, config, agent, graph>>

\* the state of the specifications a service specification leaves alone
aside == <<lock, config, agent, graph>>

\* the record of a call: the operation, the run id addressed, its boolean argument,
\* the status of the session before it (None when there was none), and the outcome
NoCall ==
    [op |-> "", run |-> 0, arg |-> FALSE, before |-> None, raised |-> "", msg |-> "",
     value |-> <<>>]

Call(op, run, arg, before, out) ==
    [op |-> op, run |-> run, arg |-> arg, before |-> before, raised |-> out.raised,
     msg |-> out.msg, value |-> out.value]

\* an outcome whose returned value the record does not keep
Quiet(out) == [out EXCEPT !.value = <<>>]

(***************************************************************************)
(* Object identity.  A new BlueprintSummary or MilestonePlan is an object  *)
(* distinct from every object still referenced; its "gen" is the smallest  *)
(* number no live reference of the run holds.                              *)
(***************************************************************************)
SummaryRefsOf(o) ==
    (IF IsNone(o.summary) THEN {} ELSE {Val(o.summary).gen})
    \cup (IF IsNone(o.milestones) THEN {} ELSE {Val(o.milestones).summary})
    \cup (IF IsNone(o.prompts) THEN {} ELSE {Val(o.prompts).summary})

PlanRefsOf(o) ==
    (IF IsNone(o.milestones) THEN {} ELSE {Val(o.milestones).gen})
    \cup (IF IsNone(o.prompts) THEN {} ELSE {Val(o.prompts).plan})

\* the references a call in flight holds in its local variables
LocalSummaryRefs(frame) ==
    (IF IsNone(frame.summary) THEN {} ELSE {Val(frame.summary).gen})
    \cup (IF IsNone(frame.plan) THEN {} ELSE {Val(frame.plan).summary})

LocalPlanRefs(frame) == IF IsNone(frame.plan) THEN {} ELSE {Val(frame.plan).gen}

\* the references the calls in flight on a run hold
ThreadSummaryRefs(threads, run_id) ==
    UNION {LocalSummaryRefs(threads[t]) :
              t \in {u \in DOMAIN threads : threads[u].session = Some(run_id)}}

ThreadPlanRefs(threads, run_id) ==
    UNION {LocalPlanRefs(threads[t]) :
              t \in {u \in DOMAIN threads : threads[u].session = Some(run_id)}}

Smallest(used) ==
    CHOOSE g \in 1..(Cardinality(used) + 1) : g \notin used /\ \A h \in 1..(g - 1) : h \in used

FreshSummary(run_id) ==
    Smallest((IF run_id \in DOMAIN orch THEN SummaryRefsOf(orch[run_id]) ELSE {})
             \cup ThreadSummaryRefs(th, run_id))

FreshPlan(run_id) ==
    Smallest(PlanRefsOf(orch[run_id]) \cup ThreadPlanRefs(th, run_id))

\* the history of approvals: whether approve_milestones(True) has been called on the
\* plan the orchestrator holds after a step, given whether the step was such a call
Approvals(before, after, was, approvedNow) ==
    IF IsNone(after.milestones) THEN FALSE
    ELSE IF after.milestones # before.milestones THEN FALSE
    ELSE was \/ approvedNow

(***************************************************************************)
(* services/orchestrator.py                                                *)
(***************************************************************************)
\* _OrchestratorSession(orchestrator=..., source=...)
Session(run_id, source) == [orchestrator |-> run_id, source |-> source]

\* a lookup that falls back to some registered session
_get_session_fallback(reg, run_id) ==
    IF run_id \in DOMAIN reg THEN Some(reg[run_id])
    ELSE IF DOMAIN reg # {} THEN Some(reg[CHOOSE r \in DOMAIN reg : TRUE])
    ELSE None

\* _get_session: the session, or None for OrchestratorSessionNotFound
_get_session(reg, run_id) ==
    IF run_id \in DOMAIN reg THEN Some(reg[run_id]) ELSE None

NotFound == [raised |-> "OrchestratorSessionNotFound", msg |-> "", value |-> <<>>]

\* "except RuntimeError as exc: raise OrchestratorInvalidState(str(exc))"
AsInvalidState(out) ==
    IF out.raised = "RuntimeError" THEN [out EXCEPT !.raised = "OrchestratorInvalidState"]
    ELSE out

\* the service functions, from the session's orchestrator to the outcome
svc_regenerate_summary(o, file, gen, components) ==
    AsInvalidState(regenerate_summary(o, file, gen, components))

svc_approve_summary(o, approved) == approve_summary(o, approved)

svc_generate_milestones(o, gen, milestones, response) ==
    AsInvalidState(generate_milestones(o, gen, milestones, response))

svc_approve_milestones(o, approved) == approve_milestones(o, approved)

svc_generate_prompts(o) == AsInvalidState(generate_prompts(o))

svc_finalize(o) == AsInvalidState(finalize(o))

svc_get_summary(o) ==
    IF IsNone(o.summary) THEN Raised(o, "OrchestratorInvalidState", "summary_not_available")
    ELSE Returned(o, Val(o.summary))

svc_get_milestones(o) ==
    IF IsNone(o.milestones)
    THEN Raised(o, "OrchestratorInvalidState", "milestones_not_generated")
    ELSE Returned(o, <<Val(o.milestones), current_graph_snapshot(o)>>)

svc_get_prompts(o) ==
    IF IsNone(o.prompts) THEN Raised(o, "OrchestratorInvalidState", "prompts_not_generated")
    ELSE Returned(o, Val(o.prompts))

\* describe_session
svc_describe_session(run_id, session, o) ==
    Returned(o, [run_id |-> run_id, source |-> session.source, status |-> Status(o)])

\* a discard that empties the registry
svc_discard_session_all(reg, run_id) == [reg |-> <<>>, value |-> run_id \in DOMAIN reg]

\* discard_session: _SESSIONS.pop(run_id, None), and whether a session was there
svc_discard_session(reg, run_id) ==
    [reg |-> [r \in DOMAIN reg \ {run_id} |-> reg[r]],
     value |-> run_id \in DOMAIN reg]

\* _LOCK = RLock(): no thread owns it
RLockFree == [owner |-> 0, depth |-> 0]

\* a thread may enter "with _LOCK" when no other thread owns the lock
CanAcquire(l, t) == l.owner \in {0, t}

\* "with _LOCK:" is entered by thread t
acquire(l, t) == [owner |-> t, depth |-> l.depth + 1]

\* a "with _LOCK" block that is left without giving the lock back
release_kept(l, t) == l

\* the "with _LOCK:" block is left by thread t
release(l, t) == IF l.depth = 1 THEN RLockFree ELSE [l EXCEPT !.depth = @ - 1]

\* config.py: MAX_COMPLETION_TOKENS_DEFAULT
MAX_COMPLETION_TOKENS_DEFAULT == 16384

\* no stage agent is built
NoConfig == [MAX_COMPLETION_TOKENS |-> MAX_COMPLETION_TOKENS_DEFAULT, api_key |-> FALSE]

\* a stage agent outside any call: its name, where it is, its input, the attempt list and
\* the attempt in progress, the model calls made for the request in progress with their
\* answers, how that request ended, the milestone index, the steps and the rolling
\* summaries of the Decomposer, the heuristic fallback, and the output
NoAgent ==
    [name |-> "", pc |-> "idle", payload |-> None, attempts |-> <<>>, attempt_index |-> 0,
     calls |-> <<>>, request |-> None, index |-> 0, steps |-> <<>>,
     previous_summaries |-> <<>>, fallback |-> None, result |-> None]

\* the other specifications are at rest
\* no orchestrator is set aside for direct calls of its GraphStore
NoGraph == [o |-> None, ops |-> 0, last |-> None, prev |-> None, before |-> <<>>]

AsideIdle ==
    /\ lock = RLockFree
    /\ config = NoConfig
    /\ agent = NoAgent
    /\ graph = NoGraph

\* the orchestrators still referenced: by a session, or by a call in flight
Live(objects, reg, threads) ==
    [r \in {x \in DOMAIN objects :
                x \in DOMAIN reg \/ \E t \in DOMAIN threads : threads[t].session = Some(x)}
        |-> objects[r]]

(***************************************************************************)
(* The service calls, each as one step (a single caller).                  *)
(***************************************************************************)
\* the caller is between calls
Ready == last = NoCall

\* a successful workflow call on an existing session, within the bound
Counted(out) ==
    /\ out.raised = "" => calls < MaxCalls
    /\ calls' = IF out.raised = "" THEN calls + 1 ELSE calls

\* the effect of a call on the orchestrator of the session found
Effect(op, run_id, arg, session, out, approvedNow) ==
    LET id == session.orchestrator
    IN  /\ orch' = [orch EXCEPT ![id] = out.orch]
        /\ approvedPlans' = [approvedPlans EXCEPT
                                ![id] = Approvals(orch[id], out.orch, @, approvedNow)]
        /\ last' = Call(op, run_id, arg, Some(Status(orch[id])), out)
        /\ UNCHANGED <<sessions, nextRun, th, aside>>

\* the call finds no session
Missing(op, run_id, arg) ==
    /\ IsNone(_get_session(sessions, run_id))
    /\ last' = Call(op, run_id, arg, None, NotFound)
    /\ UNCHANGED <<sessions, orch, nextRun, calls, approvedPlans, th, aside>>

CreateSession ==
    /\ Ready
    /\ \E payload \in Payloads, file \in FileStates, components \in ComponentLists :
           LET run_id == nextRun + 1
               out == ingest_blueprint(NewOrchestrator(run_id), payload.text, file,
                                       FreshSummary(run_id), components)
           IN  /\ run_id \in RunIds
               /\ IF out.raised = ""
                  THEN /\ sessions' = (run_id :> Session(run_id, payload.source)) @@ sessions
                       /\ orch' = (run_id :> out.orch) @@ orch
                       /\ approvedPlans' = (run_id :> FALSE) @@ approvedPlans
                       /\ nextRun' = run_id
                       /\ last' = Call("create_session", run_id, FALSE, None, Quiet(out))
                  ELSE /\ UNCHANGED <<sessions, orch, approvedPlans, nextRun>>
                       /\ last' = Call("create_session", 0, FALSE, None, out)
               /\ UNCHANGED <<calls, th, aside>>

RegenerateSummary(run_id) ==
    /\ Ready
    /\ \/ Missing("regenerate_summary", run_id, FALSE)
       \/ /\ ~IsNone(_get_session(sessions, run_id))
          /\ \E file \in FileStates, components \in ComponentLists :
               LET session == Val(_get_session(sessions, run_id))
                   out == svc_regenerate_summary(orch[session.orchestrator], file,
                                                 FreshSummary(session.orchestrator), components)
               IN  /\ Counted(out)
                   /\ Effect("regenerate_summary", run_id, FALSE, session, Quiet(out), FALSE)

ApproveSummary(run_id) ==
    /\ Ready
    /\ \E approved \in BOOLEAN :
           \/ Missing("approve_summary", run_id, approved)
           \/ /\ ~IsNone(_get_session(sessions, run_id))
              /\ LET session == Val(_get_session(sessions, run_id))
                     out == svc_approve_summary(orch[session.orchestrator], approved)
                 IN  /\ Counted(out)
                     /\ Effect("approve_summary", run_id, approved, session, out, FALSE)

GenerateMilestones(run_id) ==
    /\ Ready
    /\ \/ Missing("generate_milestones", run_id, FALSE)
       \/ /\ ~IsNone(_get_session(sessions, run_id))
          /\ \E milestones \in MilestoneLists, response \in AuditResponses :
               LET session == Val(_get_session(sessions, run_id))
                   out == svc_generate_milestones(orch[session.orchestrator],
                                                  FreshPlan(session.orchestrator), milestones,
                                                  response)
               IN  /\ Counted(out)
                   /\ Effect("generate_milestones", run_id, FALSE, session, Quiet(out), FALSE)

ApproveMilestones(run_id) ==
    /\ Ready
    /\ \E approved \in BOOLEAN :
           \/ Missing("approve_milestones", run_id, approved)
           \/ /\ ~IsNone(_get_session(sessions, run_id))
              /\ LET session == Val(_get_session(sessions, run_id))
                     out == svc_approve_milestones(orch[session.orchestrator], approved)
                 IN  /\ Counted(out)
                     /\ Effect("approve_milestones", run_id, approved, session, out,
                               out.raised = "" /\ approved)

GeneratePrompts(run_id) ==
    /\ Ready
    /\ \/ Missing("generate_prompts", run_id, FALSE)
       \/ /\ ~IsNone(_get_session(sessions, run_id))
          /\ LET session == Val(_get_session(sessions, run_id))
                 out == svc_generate_prompts(orch[session.orchestrator])
             IN  /\ Counted(out)
                 /\ Effect("generate_prompts", run_id, FALSE, session, Quiet(out), FALSE)

\* the orchestrator a call on run_id acts on, once its session is found
Found(run_id) == orch[Val(_get_session(sessions, run_id)).orchestrator]

\* a call that reads only: it is not counted
ReadOnly(op, run_id, out) ==
    \/ Missing(op, run_id, FALSE)
    \/ /\ ~IsNone(_get_session(sessions, run_id))
       /\ Effect(op, run_id, FALSE, Val(_get_session(sessions, run_id)), out, FALSE)
       /\ UNCHANGED calls

Finalize(run_id) ==
    /\ Ready
    /\ ReadOnly("finalize", run_id, svc_finalize(Found(run_id)))

GetSummary(run_id) ==
    /\ Ready
    /\ ReadOnly("get_summary", run_id, Quiet(svc_get_summary(Found(run_id))))

GetMilestones(run_id) ==
    /\ Ready
    /\ ReadOnly("get_milestones", run_id, Quiet(svc_get_milestones(Found(run_id))))

GetPrompts(run_id) ==
    /\ Ready
    /\ ReadOnly("get_prompts", run_id, Quiet(svc_get_prompts(Found(run_id))))

DescribeSession(run_id) ==
    /\ Ready
    /\ \/ Missing("describe_session", run_id, FALSE)
       \/ /\ ~IsNone(_get_session(sessions, run_id))
          /\ LET session == Val(_get_session(sessions, run_id))
             IN  Effect("describe_session", run_id, FALSE, session,
                        svc_describe_session(run_id, session, orch[session.orchestrator]), FALSE)
          /\ UNCHANGED calls

\* list_sessions: the status of every registered run
ListSessions ==
    /\ Ready
    /\ last' = [NoCall EXCEPT
                   !.op = "list_sessions",
                   !.value = <<[r \in DOMAIN sessions |->
                                   Val(svc_describe_session(
                                           r, Val(_get_session(sessions, r)),
                                           orch[Val(_get_session(sessions, r)).orchestrator]
                                       ).value)]>>]
    /\ UNCHANGED <<sessions, orch, nextRun, calls, approvedPlans, th, aside>>

DiscardSession(run_id) ==
    /\ Ready
    /\ LET out == svc_discard_session(sessions, run_id)
       IN  /\ sessions' = out.reg
           /\ orch' = Live(orch, out.reg, th)
           /\ approvedPlans' = [r \in DOMAIN orch' |-> approvedPlans[r]]
           /\ last' = [NoCall EXCEPT
                          !.op = "discard_session",
                          !.run = run_id,
                          !.before = IF out.value
                                     THEN Some(Status(orch[sessions[run_id].orchestrator]))
                                     ELSE None,
                          !.value = <<out.value>>]
           /\ UNCHANGED <<nextRun, calls, th, aside>>

\* the caller has taken the outcome of its call, and may call again
Return ==
    /\ last # NoCall
    /\ last' = NoCall
    /\ UNCHANGED <<sessions, orch, nextRun, calls, approvedPlans, th, aside>>

Init ==
    /\ sessions = <<>>
    /\ orch = <<>>
    /\ nextRun = 0
    /\ calls = 0
    /\ approvedPlans = <<>>
    /\ last = NoCall
    /\ th = <<>>
    /\ AsideIdle

Next ==
    \/ CreateSession
    \/ ListSessions
    \/ Return
    \/ \E run_id \in Targets :
        \/ RegenerateSummary(run_id)
        \/ ApproveSummary(run_id)
        \/ GenerateMilestones(run_id)
        \/ ApproveMilestones(run_id)
        \/ GeneratePrompts(run_id)
        \/ Finalize(run_id)
        \/ GetSummary(run_id)
        \/ GetMilestones(run_id)
        \/ GetPrompts(run_id)
        \/ DescribeSession(run_id)
        \/ DiscardSession(run_id)

Spec == Init /\ [][Next]_vars

(***************************************************************************)
(* Concurrent callers (SpecConc).  Each thread runs one service call at a  *)
(* time.  A call is cut where other threads run for long: where it waits   *)
(* for the language model, and where it enters the function or takes       *)
(* _LOCK.  The statements between two such points are one step.  The calls *)
(* that only read are left to Spec; approvedPlans and last are not kept.   *)
(***************************************************************************)
Threads == 1..NumThreads

ConcRunIds == 1..MaxConcRuns

WorkflowOps ==
    {"regenerate_summary", "approve_summary", "generate_milestones", "approve_milestones",
     "generate_prompts"}

\* a thread outside any call; in a call: where it is (pc), the operation and the run id it
\* was called with, its boolean argument, the orchestrator of the session it found, and
\* the local variables that hold model objects
IdleThread ==
    [pc |-> "idle", op |-> "", run |-> 0, arg |-> FALSE, session |-> None, source |-> None,
     summary |-> None, plan |-> None, snapshot |-> None]

\* thread t goes on with frame; the registry and the orchestrators become reg and objects
Proceed(t, frame, reg, objects) ==
    /\ th' = [th EXCEPT ![t] = frame]
    /\ sessions' = reg
    /\ orch' = Live(objects, reg, th')
    /\ UNCHANGED <<approvedPlans, last, aside>>

\* the orchestrator thread t works on
Mine(t) == orch[Val(th[t].session)]

\* the orchestrators, with that of thread t replaced
With(t, o) == [orch EXCEPT ![Val(th[t].session)] = o]

\* create_session up to the summarizer's model call: lines 65-67, ingest_blueprint 51-52
CreateBegin(t) ==
    /\ th[t].pc = "idle"
    /\ nextRun < MaxConcRuns
    /\ \E payload \in Payloads, file \in FileStates :
         LET run_id == nextRun + 1
             read == _read_blueprint(payload.text, file)
         IN  /\ read.raised = ""
             /\ Proceed(t, [IdleThread EXCEPT !.pc = "summarizing", !.op = "create_session",
                                              !.run = run_id, !.session = Some(run_id),
                                              !.source = payload.source],
                        sessions,
                        (run_id :> ingest_begin(NewOrchestrator(run_id), read.text)) @@ orch)
             /\ nextRun' = run_id
    /\ UNCHANGED calls

\* a workflow call is entered and looks its session up (_get_session, under _LOCK); an
\* unknown run id raises OrchestratorSessionNotFound and nothing changes
Lookup(t, op, run_id, arg) ==
    /\ th[t].pc = "idle"
    /\ calls < MaxConcCalls
    /\ ~IsNone(_get_session(sessions, run_id))
    /\ Proceed(t, [IdleThread EXCEPT
                       !.pc = "found", !.op = op, !.run = run_id, !.arg = arg,
                       !.session = Some(Val(_get_session(sessions, run_id)).orchestrator)],
               sessions, orch)
    /\ calls' = calls + 1
    /\ UNCHANGED nextRun

\* regenerate_summary up to the summarizer's model call
RegenerateBegin(t) ==
    /\ th[t].pc = "found"
    /\ th[t].op = "regenerate_summary"
    /\ \E file \in FileStates :
         LET read == _read_blueprint(Val(Mine(t).blueprint_text), file)
         IN  IF regenerate_summary_check(Mine(t)) # "" \/ read.raised # ""
             THEN Proceed(t, IdleThread, sessions, orch)
             ELSE Proceed(t, [th[t] EXCEPT !.pc = "summarizing"], sessions,
                          With(t, ingest_begin(Mine(t), read.text)))
    /\ UNCHANGED <<nextRun, calls>>

\* the summarizer answers: ingest_blueprint lines 61-69
Summarized(t) ==
    /\ th[t].pc = "summarizing"
    /\ \E components \in ComponentLists :
         LET summary == summarize_blueprint(FreshSummary(Val(th[t].session)), components)
         IN  Proceed(t,
                     IF th[t].op = "create_session" THEN [th[t] EXCEPT !.pc = "registering"]
                     ELSE IdleThread,
                     sessions, With(t, ingest_finish(Mine(t), summary)))
    /\ UNCHANGED <<nextRun, calls>>

\* create_session lines 69-75: the session is registered under _LOCK
Register(t) ==
    /\ th[t].pc = "registering"
    /\ Proceed(t, IdleThread, (th[t].run :> Session(th[t].run, th[t].source)) @@ sessions,
               orch)
    /\ UNCHANGED <<nextRun, calls>>

\* approve_summary and approve_milestones after the lookup
Approve(t) ==
    /\ th[t].pc = "found"
    /\ th[t].op \in {"approve_summary", "approve_milestones"}
    /\ LET out == IF th[t].op = "approve_summary"
                  THEN svc_approve_summary(Mine(t), th[t].arg)
                  ELSE svc_approve_milestones(Mine(t), th[t].arg)
       IN  Proceed(t, IdleThread, sessions, With(t, out.orch))
    /\ UNCHANGED <<nextRun, calls>>

\* generate_milestones up to the planner's model call: lines 98-107, where the summary is
\* read
MilestonesBegin(t) ==
    /\ th[t].pc = "found"
    /\ th[t].op = "generate_milestones"
    /\ IF generate_milestones_check(Mine(t)) # ""
       THEN Proceed(t, IdleThread, sessions, orch)
       ELSE Proceed(t, [th[t] EXCEPT !.pc = "planning", !.summary = Mine(t).summary],
                    sessions, orch)
    /\ UNCHANGED <<nextRun, calls>>

\* the planner answers: lines 107-109, and the audit up to its model call
\* (graph_audit_agent.py line 81, the baseline snapshot)
Planned(t) ==
    /\ th[t].pc = "planning"
    /\ \E milestones \in MilestoneLists :
         LET plan == agent_generate_milestones(FreshPlan(Val(th[t].session)),
                                               Val(th[t].summary), milestones)
             o == store_plan(Mine(t), plan)
         IN  Proceed(t, [th[t] EXCEPT !.pc = "auditing", !.summary = None,
                                      !.plan = Some(plan),
                                      !.snapshot = Some(snapshot(o.graph_store))],
                     sessions, With(t, o))
    /\ UNCHANGED <<nextRun, calls>>

\* the audit answers: graph_audit_agent.py lines 124-138, workflow.py line 116
Audited(t) ==
    /\ th[t].pc = "auditing"
    /\ \E response \in AuditResponses :
         Proceed(t, IdleThread, sessions,
                 With(t, store_snapshot(Mine(t), audit_merge(Val(th[t].snapshot), response))))
    /\ UNCHANGED <<nextRun, calls>>

\* generate_prompts up to the prompt model calls: lines 145-162, where the summary, the
\* milestones and the snapshot are read
PromptsBegin(t) ==
    /\ th[t].pc = "found"
    /\ th[t].op = "generate_prompts"
    /\ IF generate_prompts_check(Mine(t)) # ""
       THEN Proceed(t, IdleThread, sessions, orch)
       ELSE Proceed(t, [th[t] EXCEPT !.pc = "prompting",
                                     !.summary = Mine(t).summary,
                                     !.plan = Mine(t).milestones,
                                     !.snapshot = Some(current_graph_snapshot(Mine(t)))],
                    sessions, orch)
    /\ UNCHANGED <<nextRun, calls>>

\* the prompts are written: line 163
Prompted(t) ==
    /\ th[t].pc = "prompting"
    /\ Proceed(t, IdleThread, sessions,
               With(t, store_prompts(Mine(t),
                                     agent_generate_prompts(Val(th[t].summary), Val(th[t].plan),
                                                            Val(th[t].snapshot)))))
    /\ UNCHANGED <<nextRun, calls>>

\* discard_session is entered
DiscardBegin(t, run_id) ==
    /\ th[t].pc = "idle"
    /\ Proceed(t, [IdleThread EXCEPT !.pc = "discarding", !.op = "discard_session",
                                     !.run = run_id],
               sessions, orch)
    /\ UNCHANGED <<nextRun, calls>>

\* discard_session lines 205-206: the pop under _LOCK
Discarded(t) ==
    /\ th[t].pc = "discarding"
    /\ Proceed(t, IdleThread, svc_discard_session(sessions, th[t].run).reg, orch)
    /\ UNCHANGED <<nextRun, calls>>

InitConc ==
    /\ sessions = <<>>
    /\ orch = <<>>
    /\ nextRun = 0
    /\ calls = 0
    /\ approvedPlans = <<>>
    /\ last = NoCall
    /\ th = [t \in Threads |-> IdleThread]
    /\ AsideIdle

NextConc ==
    \E t \in Threads :
        \/ CreateBegin(t)
        \/ \E op \in WorkflowOps, run_id \in ConcRunIds :
              \E arg \in IF op \in {"approve_summary", "approve_milestones"} THEN BOOLEAN
                          ELSE {FALSE} :
                 Lookup(t, op, run_id, arg)
        \/ RegenerateBegin(t)
        \/ Summarized(t)
        \/ Register(t)
        \/ Approve(t)
        \/ MilestonesBegin(t)
        \/ Planned(t)
        \/ Audited(t)
        \/ PromptsBegin(t)
        \/ Prompted(t)
        \/ \E run_id \in ConcRunIds : DiscardBegin(t, run_id)
        \/ Discarded(t)

SpecConc == InitConc /\ [][NextConc]_vars

(***************************************************************************)
(* The registry lock (SpecLock).  The service under several threads, as in *)
(* SpecConc, with every "with _LOCK:" block of services/orchestrator.py    *)
(* cut in two: the thread enters the block when no other thread owns the   *)
(* lock, and leaves it in a later step.  _touch is a step (its timestamp   *)
(* is not kept), and the calls that only read are included.                *)
(***************************************************************************)
LockRunIds == 1..MaxLockRuns

\* what the language model answers bears on no lock: one answer of each kind
LockComponentLists == {<<Api, Db>>}

LockMilestoneLists ==
    {<<Milestone(1, <<"a", "p", "i">>, <<>>), Milestone(2, <<"x">>, <<>>),
       Milestone(3, <<"x">>, <<"D", "B">>), Milestone(4, <<"x">>, <<>>),
       Milestone(5, <<"x">>, <<>>)>>}

LockAuditResponses == {None}

ReadOps == {"finalize", "get_summary", "get_milestones", "get_prompts", "describe_session"}

\* a thread outside any call: the frame of SpecConc, and the run ids list_sessions has
\* still to describe
LockIdle ==
    [pc |-> "idle", op |-> "", run |-> 0, arg |-> FALSE, session |-> None, source |-> None,
     summary |-> None, plan |-> None, snapshot |-> None, keys |-> <<>>]

\* where a thread waits for the language model
ModelCallPcs == {"summarizing", "planning", "auditing", "prompting"}

\* where a thread is inside a "with _LOCK:" block
LockedPcs == {"get_session", "touching", "registering", "popping", "listing"}

\* list(_SESSIONS.keys())
RECURSIVE KeysOf(_)
KeysOf(ids) ==
    IF ids = {} THEN <<>>
    ELSE LET least == CHOOSE r \in ids : \A q \in ids : r <= q
         IN  <<least>> \o KeysOf(ids \ {least})

\* thread t goes on with frame; the registry, the orchestrators and the lock become reg,
\* objects and l
L_Proceed(t, frame, reg, objects, l) ==
    /\ th' = [th EXCEPT ![t] = frame]
    /\ sessions' = reg
    /\ orch' = Live(objects, reg, th')
    /\ lock' = l
    /\ UNCHANGED <<approvedPlans, last, config, agent, graph>>

\* the call of thread t is over; list_sessions goes on to the next run id
L_Done(t) ==
    IF th[t].keys = <<>> THEN LockIdle
    ELSE [LockIdle EXCEPT !.pc = "describe", !.op = "list_sessions", !.keys = th[t].keys]

\* the orchestrator method has returned: _touch(session) is next
L_Touch(t) == [LockIdle EXCEPT !.pc = "touch", !.op = th[t].op, !.run = th[t].run]

\* create_session up to the summarizer's model call: lines 65-67, ingest_blueprint 51-52
L_CreateBegin(t) ==
    /\ th[t].pc = "idle"
    /\ nextRun < MaxLockRuns
    /\ \E payload \in Payloads, file \in FileStates :
         LET run_id == nextRun + 1
             read == _read_blueprint(payload.text, file)
         IN  /\ read.raised = ""
             /\ L_Proceed(t, [LockIdle EXCEPT !.pc = "summarizing", !.op = "create_session",
                                              !.run = run_id, !.session = Some(run_id),
                                              !.source = payload.source],
                          sessions,
                          (run_id :> ingest_begin(NewOrchestrator(run_id), read.text)) @@ orch,
                          lock)
             /\ nextRun' = run_id
    /\ UNCHANGED calls

\* a call on a run id enters _get_session and its "with _LOCK:" block (line 50)
L_LookupAcquire(t, op, run_id, arg) ==
    /\ th[t].pc = "idle"
    /\ op \in WorkflowOps => calls < MaxLockCalls
    /\ CanAcquire(lock, t)
    /\ L_Proceed(t, [LockIdle EXCEPT !.pc = "get_session", !.op = op, !.run = run_id,
                                     !.arg = arg],
                 sessions, orch, acquire(lock, t))
    /\ calls' = IF op \in WorkflowOps THEN calls + 1 ELSE calls
    /\ UNCHANGED nextRun

\* _get_session lines 51-54: the registry is read, the block is left, and an unknown run
\* id raises OrchestratorSessionNotFound
L_GotSession(t) ==
    /\ th[t].pc = "get_session"
    /\ LET found == _get_session(sessions, th[t].run)
       IN  L_Proceed(t,
                     IF IsNone(found) THEN LockIdle
                     ELSE [th[t] EXCEPT !.pc = "found",
                                        !.session = Some(Val(found).orchestrator)],
                     sessions, orch, release(lock, t))
    /\ UNCHANGED <<nextRun, calls>>

\* regenerate_summary up to the summarizer's model call
L_RegenerateBegin(t) ==
    /\ th[t].pc = "found"
    /\ th[t].op = "regenerate_summary"
    /\ \E file \in FileStates :
         LET read == _read_blueprint(Val(Mine(t).blueprint_text), file)
         IN  IF regenerate_summary_check(Mine(t)) # "" \/ read.raised # ""
             THEN L_Proceed(t, LockIdle, sessions, orch, lock)
             ELSE L_Proceed(t, [th[t] EXCEPT !.pc = "summarizing"], sessions,
                            With(t, ingest_begin(Mine(t), read.text)), lock)
    /\ UNCHANGED <<nextRun, calls>>

\* the summarizer answers: ingest_blueprint lines 61-69
L_Summarized(t) ==
    /\ th[t].pc = "summarizing"
    /\ \E components \in LockComponentLists :
         LET summary == summarize_blueprint(FreshSummary(Val(th[t].session)), components)
         IN  L_Proceed(t,
                       IF th[t].op = "create_session" THEN [th[t] EXCEPT !.pc = "register"]
                       ELSE L_Touch(t),
                       sessions, With(t, ingest_finish(Mine(t), summary)), lock)
    /\ UNCHANGED <<nextRun, calls>>

\* create_session line 69: the "with _LOCK:" block is entered
L_RegisterAcquire(t) ==
    /\ th[t].pc = "register"
    /\ CanAcquire(lock, t)
    /\ L_Proceed(t, [th[t] EXCEPT !.pc = "registering"], sessions, orch, acquire(lock, t))
    /\ UNCHANGED <<nextRun, calls>>

\* create_session lines 70-75: the session is registered and the block is left
L_Registered(t) ==
    /\ th[t].pc = "registering"
    /\ L_Proceed(t, LockIdle, (th[t].run :> Session(th[t].run, th[t].source)) @@ sessions,
                 orch, release(lock, t))
    /\ UNCHANGED <<nextRun, calls>>

\* approve_summary and approve_milestones after the lookup: a RuntimeError leaves the
\* function, a success goes on to _touch
L_Approve(t) ==
    /\ th[t].pc = "found"
    /\ th[t].op \in {"approve_summary", "approve_milestones"}
    /\ LET out == IF th[t].op = "approve_summary"
                  THEN svc_approve_summary(Mine(t), th[t].arg)
                  ELSE svc_approve_milestones(Mine(t), th[t].arg)
       IN  L_Proceed(t, IF out.raised # "" THEN LockIdle ELSE L_Touch(t), sessions,
                     With(t, out.orch), lock)
    /\ UNCHANGED <<nextRun, calls>>

\* generate_milestones up to the planner's model call
L_MilestonesBegin(t) ==
    /\ th[t].pc = "found"
    /\ th[t].op = "generate_milestones"
    /\ IF generate_milestones_check(Mine(t)) # ""
       THEN L_Proceed(t, LockIdle, sessions, orch, lock)
       ELSE L_Proceed(t, [th[t] EXCEPT !.pc = "planning", !.summary = Mine(t).summary],
                      sessions, orch, lock)
    /\ UNCHANGED <<nextRun, calls>>

\* the planner answers, and the audit runs up to its model call
L_Planned(t) ==
    /\ th[t].pc = "planning"
    /\ \E milestones \in LockMilestoneLists :
         LET plan == agent_generate_milestones(FreshPlan(Val(th[t].session)),
                                               Val(th[t].summary), milestones)
             o == store_plan(Mine(t), plan)
         IN  L_Proceed(t, [th[t] EXCEPT !.pc = "auditing", !.summary = None,
                                        !.plan = Some(plan),
                                        !.snapshot = Some(snapshot(o.graph_store))],
                       sessions, With(t, o), lock)
    /\ UNCHANGED <<nextRun, calls>>

\* the audit answers
L_Audited(t) ==
    /\ th[t].pc = "auditing"
    /\ \E response \in LockAuditResponses :
         L_Proceed(t, L_Touch(t), sessions,
                   With(t, store_snapshot(Mine(t), audit_merge(Val(th[t].snapshot), response))),
                   lock)
    /\ UNCHANGED <<nextRun, calls>>

\* generate_prompts up to the prompt model calls
L_PromptsBegin(t) ==
    /\ th[t].pc = "found"
    /\ th[t].op = "generate_prompts"
    /\ IF generate_prompts_check(Mine(t)) # ""
       THEN L_Proceed(t, LockIdle, sessions, orch, lock)
       ELSE L_Proceed(t, [th[t] EXCEPT !.pc = "prompting",
                                       !.summary = Mine(t).summary,
                                       !.plan = Mine(t).milestones,
                                       !.snapshot = Some(current_graph_snapshot(Mine(t)))],
                      sessions, orch, lock)
    /\ UNCHANGED <<nextRun, calls>>

\* the prompts are written
L_Prompted(t) ==
    /\ th[t].pc = "prompting"
    /\ L_Proceed(t, L_Touch(t), sessions,
                 With(t, store_prompts(Mine(t),
                                       agent_generate_prompts(Val(th[t].summary),
                                                              Val(th[t].plan),
                                                              Val(th[t].snapshot)))),
                 lock)
    /\ UNCHANGED <<nextRun, calls>>

\* the calls that only read, after the lookup: finalize goes on to _touch when it
\* succeeds; get_summary, get_milestones, get_prompts and describe_session return
L_Read(t) ==
    /\ th[t].pc = "found"
    /\ th[t].op \in ReadOps
    /\ L_Proceed(t,
                 IF th[t].op = "finalize" /\ svc_finalize(Mine(t)).raised = "" THEN L_Touch(t)
                 ELSE L_Done(t),
                 sessions, orch, lock)
    /\ UNCHANGED <<nextRun, calls>>

\* _touch line 58: the "with _LOCK:" block is entered
L_TouchAcquire(t) ==
    /\ th[t].pc = "touch"
    /\ CanAcquire(lock, t)
    /\ L_Proceed(t, [th[t] EXCEPT !.pc = "touching"], sessions, orch, acquire(lock, t))
    /\ UNCHANGED <<nextRun, calls>>

\* _touch line 59: updated_at is set and the block is left
L_Touched(t) ==
    /\ th[t].pc = "touching"
    /\ L_Proceed(t, LockIdle, sessions, orch, release(lock, t))
    /\ UNCHANGED <<nextRun, calls>>

\* discard_session line 205: the "with _LOCK:" block is entered
L_DiscardAcquire(t, run_id) ==
    /\ th[t].pc = "idle"
    /\ CanAcquire(lock, t)
    /\ L_Proceed(t, [LockIdle EXCEPT !.pc = "popping", !.op = "discard_session",
                                     !.run = run_id],
                 sessions, orch, acquire(lock, t))
    /\ UNCHANGED <<nextRun, calls>>

\* discard_session line 206: the pop, and the block is left
L_Discarded(t) ==
    /\ th[t].pc = "popping"
    /\ L_Proceed(t, LockIdle, svc_discard_session(sessions, th[t].run).reg, orch,
                 release(lock, t))
    /\ UNCHANGED <<nextRun, calls>>

\* list_sessions line 199: the "with _LOCK:" block is entered
L_ListAcquire(t) ==
    /\ th[t].pc = "idle"
    /\ CanAcquire(lock, t)
    /\ L_Proceed(t, [LockIdle EXCEPT !.pc = "listing", !.op = "list_sessions"],
                 sessions, orch, acquire(lock, t))
    /\ UNCHANGED <<nextRun, calls>>

\* list_sessions line 200: the run ids are copied and the block is left
L_Listed(t) ==
    /\ th[t].pc = "listing"
    /\ L_Proceed(t,
                 IF DOMAIN sessions = {} THEN LockIdle
                 ELSE [LockIdle EXCEPT !.pc = "describe", !.op = "list_sessions",
                                       !.keys = KeysOf(DOMAIN sessions)],
                 sessions, orch, release(lock, t))
    /\ UNCHANGED <<nextRun, calls>>

\* list_sessions line 201: describe_session(run_id) enters _get_session for the next run id
L_DescribeAcquire(t) ==
    /\ th[t].pc = "describe"
    /\ CanAcquire(lock, t)
    /\ L_Proceed(t, [LockIdle EXCEPT !.pc = "get_session", !.op = "describe_session",
                                     !.run = Head(th[t].keys), !.keys = Tail(th[t].keys)],
                 sessions, orch, acquire(lock, t))
    /\ UNCHANGED <<nextRun, calls>>

InitLock ==
    /\ sessions = <<>>
    /\ orch = <<>>
    /\ nextRun = 0
    /\ calls = 0
    /\ approvedPlans = <<>>
    /\ last = NoCall
    /\ th = [t \in Threads |-> LockIdle]
    /\ lock = RLockFree
    /\ config = NoConfig
    /\ agent = NoAgent
    /\ graph = NoGraph

NextLock ==
    \E t \in Threads :
        \/ L_CreateBegin(t)
        \/ \E op \in WorkflowOps \cup ReadOps, run_id \in LockRunIds :
              \E arg \in IF op \in {"approve_summary", "approve_milestones"} THEN BOOLEAN
                          ELSE {FALSE} :
                 L_LookupAcquire(t, op, run_id, arg)
        \/ L_GotSession(t)
        \/ L_RegenerateBegin(t)
        \/ L_Summarized(t)
        \/ L_RegisterAcquire(t)
        \/ L_Registered(t)
        \/ L_Approve(t)
        \/ L_MilestonesBegin(t)
        \/ L_Planned(t)
        \/ L_Audited(t)
        \/ L_PromptsBegin(t)
        \/ L_Prompted(t)
        \/ L_Read(t)
        \/ L_TouchAcquire(t)
        \/ L_Touched(t)
        \/ \E run_id \in LockRunIds : L_DiscardAcquire(t, run_id)
        \/ L_Discarded(t)
        \/ L_ListAcquire(t)
        \/ L_Listed(t)
        \/ L_DescribeAcquire(t)

SpecLock == InitLock /\ [][NextLock]_vars

(***************************************************************************)
(* The stage agents (agents/coordinator_agent.py, planner_agent.py,        *)
(* decomposer_agent.py) and the MilestonesAgent of the orchestrator        *)
(* (SpecAgents).  A model call is a call of create_chat_completion (of     *)
(* chat.completions.create for the Planner); what it gives back, or that   *)
(* it raises, is an input.  A call of an agent is cut at its model calls.  *)
(* A text is a sequence of characters, or of words where only whole words  *)
(* matter; a message content is its text together with the value           *)
(* json.loads gives for it (None when it is not JSON).                     *)
(***************************************************************************)
\* config.get_max_completion_tokens: settings are the values of the two environment
\* suffixes, in order (None: unset or not an integer)
RECURSIVE get_max_completion_tokens(_)
get_max_completion_tokens(settings) ==
    IF settings = <<>> THEN MAX_COMPLETION_TOKENS_DEFAULT
    ELSE IF ~IsNone(Head(settings)) /\ Val(Head(settings)) > 0 THEN Val(Head(settings))
    ELSE get_max_completion_tokens(Tail(settings))

\* what the environment sets MAX_COMPLETION_TOKENS and COORDINATOR_MAX_COMPLETION_TOKENS to
TokenSettings ==
    {<<None, None>>, <<Some(0), Some(1)>>, <<Some(900), Some(5)>>, <<Some(-5), None>>,
     <<None, Some(2048)>>}

\* the set as a list, largest first
RECURSIVE sorted_set_descending(_)
sorted_set_descending(values) ==
    IF values = {} THEN <<>>
    ELSE LET most == CHOOSE v \in values : \A w \in values : v >= w
         IN  <<most>> \o sorted_set_descending(values \ {most})

\* sorted(set of int)
RECURSIVE sorted_set(_)
sorted_set(values) ==
    IF values = {} THEN <<>>
    ELSE LET least == CHOOSE v \in values : \A w \in values : v <= w
         IN  <<least>> \o sorted_set(values \ {least})

\* coordinator_agent.py: _DEFAULT_COORDINATOR_COMPLETION_TOKEN_ATTEMPTS
_DEFAULT_COORDINATOR_COMPLETION_TOKEN_ATTEMPTS == <<900, 1500, 2200>>

\* coordinator_agent.py: _resolve_coordinator_completion_token_attempts
_resolve_coordinator_completion_token_attempts(max_completion_tokens) ==
    LET candidates == Append(_DEFAULT_COORDINATOR_COMPLETION_TOKEN_ATTEMPTS,
                             max_completion_tokens)
    IN  sorted_set({value \in Range(candidates) : value # 0 /\ value > 0})

\* a model call raises
CallFails == [kind |-> "raise", text |-> <<>>, json |-> None, finish_reason |-> "",
              refusal |-> FALSE]

\* a response without choices
NoChoices == [kind |-> "no_choices", text |-> <<>>, json |-> None, finish_reason |-> "",
              refusal |-> FALSE]

\* a response whose first choice has this message content, finish reason ("" for none)
\* and refusal
Choice(text, json, finish_reason, refusal) ==
    [kind |-> "choice", text |-> text, json |-> json, finish_reason |-> finish_reason,
     refusal |-> refusal]

\* _openai_helpers.extract_message_content on the message of the first choice
extract_message_content(response) == Strip(response.text)

\* the loop goes on after any empty content that has a finish reason
_request_objectives_step_any_reason(attempts, attempt_index, response) ==
    IF response.kind = "raise" THEN [next |-> "raise", msg |-> "call_failed"]
    ELSE IF response.kind = "no_choices" THEN [next |-> "raise", msg |-> "no_choices"]
    ELSE IF extract_message_content(response) # <<>> THEN [next |-> "return", msg |-> ""]
    ELSE IF response.finish_reason # "" /\ attempt_index < Len(attempts) - 1
         THEN [next |-> "continue", msg |-> ""]
    ELSE [next |-> "raise", msg |-> "empty_content"]

\* one pass of the loop of CoordinatorAgent._request_objectives on the response to the call
\* it made (lines 179-246): the content is returned, an error is raised, or the loop goes on
\* to the next attempt
_request_objectives_step(attempts, attempt_index, response) ==
    IF response.kind = "raise" THEN [next |-> "raise", msg |-> "call_failed"]
    ELSE IF response.kind = "no_choices" THEN [next |-> "raise", msg |-> "no_choices"]
    ELSE IF extract_message_content(response) # <<>> THEN [next |-> "return", msg |-> ""]
    ELSE IF response.finish_reason = "length" /\ attempt_index < Len(attempts) - 1
         THEN [next |-> "continue", msg |-> ""]
    ELSE [next |-> "raise", msg |-> "empty_content"]

\* str.format of a number as two digits, "{:02d}"
DigitOf(n) ==
    CASE n = 0 -> "0" [] n = 1 -> "1" [] n = 2 -> "2" [] n = 3 -> "3" [] n = 4 -> "4"
      [] n = 5 -> "5" [] n = 6 -> "6" [] n = 7 -> "7" [] n = 8 -> "8" [] OTHER -> "9"

TwoDigits(n) == <<DigitOf((n \div 10) % 10), DigitOf(n % 10)>>

\* str(n) of a positive int
RECURSIVE Decimal(_)
Decimal(n) == IF n < 10 THEN <<DigitOf(n)>> ELSE Decimal(n \div 10) \o <<DigitOf(n % 10)>>

\* the position is formatted as it is counted, from 0
PositionalId_from_zero(index) == <<"m">> \o TwoDigits(index)

\* the positional id with a capital letter
PositionalId_capital(index) == <<"M">> \o TwoDigits(index + 1)

\* f"m{index + 1:02d}"
PositionalId(index) == <<"m">> \o TwoDigits(index + 1)

IsIdChar(c) == c \in LowerChars \cup DigitChars \cup {"-"}

\* re.sub(r"[^a-z0-9-]+", "-", value)
RECURSIVE SubOthers(_, _)
SubOthers(s, inRun) ==
    IF s = <<>> THEN <<>>
    ELSE IF IsIdChar(Head(s)) THEN <<Head(s)>> \o SubOthers(Tail(s), FALSE)
    ELSE IF inRun THEN SubOthers(Tail(s), TRUE)
    ELSE <<"-">> \o SubOthers(Tail(s), TRUE)

\* re.sub(r"-+", "-", slug)
RECURSIVE CollapseHyphens(_)
CollapseHyphens(s) ==
    IF Len(s) < 2 THEN s
    ELSE IF s[1] = "-" /\ s[2] = "-" THEN CollapseHyphens(Tail(s))
    ELSE <<Head(s)>> \o CollapseHyphens(Tail(s))

\* CoordinatorAgent._sanitize_id: index is None or Some(position)
_sanitize_id(candidate, index) ==
    LET slug == StripHyphens(CollapseHyphens(SubOthers(Lower(candidate), FALSE)))
    IN  IF slug # <<>> THEN slug
        ELSE IF IsNone(index) THEN <<>>
        ELSE PositionalId(Val(index))

\* CoordinatorAgent._safe_order: value is None (missing or not a number) or Some(int)
_safe_order(value, fallback) ==
    IF ~IsNone(value) /\ Val(value) >= 0 THEN Val(value) ELSE fallback

\* re.sub(r"\s+", " ", text)
RECURSIVE CollapseSpaces(_, _)
CollapseSpaces(s, inRun) ==
    IF s = <<>> THEN <<>>
    ELSE IF ~IsSpace(Head(s)) THEN <<Head(s)>> \o CollapseSpaces(Tail(s), FALSE)
    ELSE IF inRun THEN CollapseSpaces(Tail(s), TRUE)
    ELSE <<" ">> \o CollapseSpaces(Tail(s), TRUE)

\* CoordinatorAgent._clean_text (and PlannerAgent._clean_text) on a str
_clean_text(value) == CollapseSpaces(Strip(value), FALSE)

\* CoordinatorAgent._normalize_list on a list of str
_normalize_list(value) ==
    SelectSeq([i \in 1..Len(value) |-> _clean_text(value[i])], LAMBDA item : item # <<>>)

\* x or y, on str and on list
Or(x, y) == IF x # <<>> THEN x ELSE y

\* _parse_objectives lines 278-306: the entry at position idx (from 0), prepared; an entry
\* is a dict with the keys id, title, objective, success_criteria, dependencies and order
\* (a missing or empty value is <<>>, a missing or unusable order None)
Prepare(entry, idx) ==
    LET raw_id == Or(entry.id, PositionalId(idx))
        title == _clean_text(Or(entry.title, <<"Milestone ">> \o Decimal(idx + 1)))
    IN  [raw_id |-> raw_id,
         id |-> _sanitize_id(raw_id, Some(idx)),
         title |-> title,
         objective |-> _clean_text(Or(entry.objective, title)),
         success |-> Or(_normalize_list(entry.success_criteria),
                        <<<<"Objective for ">> \o title \o <<" is achieved.">>>>),
         dependencies |-> _normalize_list(entry.dependencies),
         order |-> _safe_order(entry.order, idx)]

\* the prepared entries, in order: those that are not dicts are skipped
RECURSIVE PrepareAll(_, _)
PrepareAll(entries, idx) ==
    IF idx >= Len(entries) THEN <<>>
    ELSE IF ~entries[idx + 1].is_dict THEN PrepareAll(entries, idx + 1)
    ELSE <<Prepare(entries[idx + 1], idx)>> \o PrepareAll(entries, idx + 1)

\* id_lookup after the loop: the keys raw_id.lower() and sanitized_id of every prepared
\* entry, a later entry overwriting an earlier one
RECURSIVE IdLookup(_)
IdLookup(prepared) ==
    IF prepared = <<>> THEN <<>>
    ELSE LET item == prepared[Len(prepared)]
         IN  (item.id :> item.id) @@ (Lower(item.raw_id) :> item.id)
                 @@ IdLookup(SubSeq(prepared, 1, Len(prepared) - 1))

\* the resolution without the test against the item's own id
ResolveDependencies_with_self(item, id_lookup, valid_ids) ==
    LET normalized(dep) ==
            IF Lower(dep) \in DOMAIN id_lookup /\ id_lookup[Lower(dep)] # <<>>
            THEN id_lookup[Lower(dep)]
            ELSE _sanitize_id(dep, None)
        all == [i \in 1..Len(item.dependencies) |-> normalized(item.dependencies[i])]
    IN  Dedupe(SelectSeq(all, LAMBDA n : n # <<>> /\ n \in valid_ids))

\* _parse_objectives lines 313-319: the dependencies of one item, resolved
ResolveDependencies(item, id_lookup, valid_ids) ==
    LET normalized(dep) ==
            IF Lower(dep) \in DOMAIN id_lookup /\ id_lookup[Lower(dep)] # <<>>
            THEN id_lookup[Lower(dep)]
            ELSE _sanitize_id(dep, None)
        all == [i \in 1..Len(item.dependencies) |-> normalized(item.dependencies[i])]
    IN  Dedupe(SelectSeq(all, LAMBDA n : n # <<>> /\ n \in valid_ids /\ n # item.id))

\* (order, id) of x below (order, id) of y
KeyLess(x, y) == x.order < y.order \/ (x.order = y.order /\ StrLess(x.id, y.id))

RECURSIVE InsertByKey(_, _)
InsertByKey(x, sorted) ==
    IF sorted = <<>> THEN <<x>>
    ELSE IF KeyLess(x, Head(sorted)) THEN <<x>> \o sorted
    ELSE <<Head(sorted)>> \o InsertByKey(x, Tail(sorted))

\* the prepared entries are left in the order of the response
SortByKey_unsorted(items) == items

\* prepared.sort(key=lambda itm: (itm["order"], itm["id"])): stable
RECURSIVE SortByKey(_)
SortByKey(items) ==
    IF items = <<>> THEN <<>>
    ELSE InsertByKey(items[Len(items)], SortByKey(SubSeq(items, 1, Len(items) - 1)))

\* models.MilestoneObjective
MilestoneObjective(id, order, title, objective, success_criteria, dependencies) ==
    [id |-> id, order |-> order, title |-> title, objective |-> objective,
     success_criteria |-> success_criteria, dependencies |-> dependencies]

\* CoordinatorAgent._parse_objectives on the message content: json is the value
\* json.loads gives (None: it raises), a dict or a list or another value, items its
\* "milestones" (the list itself), None when that is no list
_parse_objectives(json) ==
    IF IsNone(json) THEN [raised |-> "JSONDecodeError", objectives |-> <<>>]
    ELSE IF IsNone(Val(json).items) THEN [raised |-> "ValueError", objectives |-> <<>>]
    ELSE LET prepared == PrepareAll(Val(Val(json).items), 0)
             id_lookup == IdLookup(prepared)
             valid_ids == {prepared[i].id : i \in 1..Len(prepared)}
             resolved == [i \in 1..Len(prepared) |->
                             [prepared[i] EXCEPT !.dependencies =
                                 ResolveDependencies(prepared[i], id_lookup, valid_ids)]]
             ordered == SortByKey(resolved)
         IN  [raised |-> "",
              objectives |-> [i \in 1..Len(ordered) |->
                                 MilestoneObjective(ordered[i].id, i - 1, ordered[i].title,
                                                    ordered[i].objective, ordered[i].success,
                                                    ordered[i].dependencies)]]

\* models.TargetStack: the three labels are fixed
TargetStack == [backend |-> "FastAPI", frontend |-> "Next.js", db |-> "Postgres"]

\* CoordinatorAgent._fallback_objectives: the fixed sequence of five, for the stack
_fallback_objectives(payload) ==
    LET stack == payload.target_stack
        fallback_sequence ==
            <<[title |-> <<"Milestone 1: Establish project baseline">>,
               objective |-> <<"Clarify problem framing">>,
               success |-> <<<<"Stakeholders confirm">>, <<"Key risks surfaced">>>>,
               dependencies |-> <<>>],
              [title |-> <<"Milestone 2: Draft architecture and integration strategy">>,
               objective |-> <<"Define application architecture across", stack.backend,
                               stack.frontend, stack.db>>,
               success |-> <<<<"Architecture accepted">>, <<"Data flows documented">>>>,
               dependencies |-> <<PositionalId(0)>>],
              [title |-> <<"Milestone 3: Build backend foundation">>,
               objective |-> <<"Stand up the services", stack.backend, stack.db>>,
               success |-> <<<<"Core service skeletons compile">>,
                             <<"Primary domain endpoints pass">>>>,
               dependencies |-> <<PositionalId(0), PositionalId(1)>>],
              [title |-> <<"Milestone 4: Build frontend experience">>,
               objective |-> <<"Implement the user experience", stack.frontend>>,
               success |-> <<<<"Priority user journeys render">>,
                             <<"Accessibility checks meet bars">>>>,
               dependencies |-> <<PositionalId(0), PositionalId(1), PositionalId(2)>>],
              [title |-> <<"Milestone 5: Integrate, validate, and launch">>,
               objective |-> <<"Complete integration">>,
               success |-> <<<<"Regression suite covers critical paths">>,
                             <<"Playbooks are signed off">>>>,
               dependencies |-> <<PositionalId(0), PositionalId(1), PositionalId(2),
                                  PositionalId(3)>>]>>
    IN  [index \in 1..Len(fallback_sequence) |->
            MilestoneObjective(PositionalId(index - 1), index - 1,
                               fallback_sequence[index].title,
                               fallback_sequence[index].objective,
                               fallback_sequence[index].success,
                               fallback_sequence[index].dependencies)]

\* CoordinatorAgentOutput(objectives=...), PlannerAgentOutput(plan=...),
\* DecomposerAgentOutput(steps=...), MilestonePlan(milestones=...)
Output(value) == [raised |-> "", value |-> value]

\* the exception leaves the function
Raises(error) == [raised |-> error, value |-> <<>>]

\* no except clause: what the body raises is raised
except_nothing(outcome, handler) == outcome

\* try: body, except Exception: handler; the outcome of the body, or when it raised the
\* value of the handler
except_Exception(outcome, handler) == IF outcome.raised = "" THEN outcome ELSE Output(handler)

\* synthesize_objectives lines 115-162: the content the request returned is parsed; the
\* except clause leaves no objectives, and no objectives give way to the fallback
objectives_from(payload, request, json) ==
    LET body == IF request.next # "return" THEN Raises(request.msg)
                ELSE IF _parse_objectives(json).raised # ""
                THEN Raises(_parse_objectives(json).raised)
                ELSE Output(_parse_objectives(json).objectives)
        tried == except_Exception(body, <<>>)
    IN  IF tried.raised = "" /\ tried.value = <<>>
        THEN Output(_fallback_objectives(payload))
        ELSE tried

\* the variables of the workflow, which the stage agents leave alone
workflow == <<sessions, orch, nextRun, calls, approvedPlans, last, th, lock>>

\* a model call made with these parameters; response is None until it is answered
ModelCall(max_tokens, context_limit, summaries) ==
    [max_tokens |-> max_tokens, context_limit |-> context_limit, summaries |-> summaries,
     response |-> None]

\* the answer to the call in flight is recorded
Answered(log, response) == [log EXCEPT ![Len(log)].response = Some(response)]

\* entries of the "milestones" array of a Coordinator response
EntryApi ==
    [is_dict |-> TRUE, id |-> <<"A", "P", "I">>, title |-> <<" ", "a", " ", " ", "b">>,
     objective |-> <<>>, success_criteria |-> <<>>, dependencies |-> <<<<"d", "b">>>>,
     order |-> Some(1)]

EntryDb ==
    [is_dict |-> TRUE, id |-> <<"d", "!", "b">>, title |-> <<"d">>, objective |-> <<"x">>,
     success_criteria |-> <<<<"x">>, <<" ">>>>,
     dependencies |-> <<<<"A", "p", "i">>, <<"d", "!", "b">>, <<"x">>>>, order |-> None]

EntryBare ==
    [is_dict |-> TRUE, id |-> <<>>, title |-> <<>>, objective |-> <<>>,
     success_criteria |-> <<>>, dependencies |-> <<>>, order |-> Some(-1)]

EntryText ==
    [is_dict |-> FALSE, id |-> <<>>, title |-> <<>>, objective |-> <<>>,
     success_criteria |-> <<>>, dependencies |-> <<>>, order |-> None]

\* the text of a content that is JSON
JsonText == <<"{", "}">>

\* an entry with an id, dependencies and an order, and a title
Entry(id, dependencies, order) ==
    [is_dict |-> TRUE, id |-> id, title |-> <<"x">>, objective |-> <<>>,
     success_criteria |-> <<>>, dependencies |-> dependencies, order |-> order]

\* two entries that name each other as dependency
EntriesMutual ==
    <<Entry(<<"a">>, <<<<"b">>>>, None), Entry(<<"b">>, <<<<"a">>>>, None)>>

\* two ids of one slug, and an id that is the positional id of the entry after it
EntriesSameSlug ==
    <<Entry(<<"a", "p", "i", "!">>, <<>>, None), EntryApi,
      Entry(<<"m", "0", "4">>, <<<<"A", "P", "I">>>>, None), EntryBare>>

\* nine entries, eight of them objects: declared orders 5, 0, 0, 2, negative and
\* missing; references that are repeated, to a later entry, and to no entry
EntriesEight ==
    <<Entry(<<"x">>, <<>>, Some(5)),
      Entry(<<"b">>, <<<<"x">>, <<"X", " ">>, <<"a">>, <<"p">>, <<"x">>>>, Some(0)),
      Entry(<<"a">>, <<<<"b">>, <<"x">>>>, Some(0)),
      EntryBare, EntryBare, EntryText, EntryBare, EntryBare,
      Entry(<<"d">>, <<<<"m", "0", "5">>, <<"m", "0", "4">>>>, Some(2))>>

\* five entries in the order they declare
EntriesFive ==
    <<Entry(<<"a">>, <<>>, Some(0)), Entry(<<"b">>, <<<<"a">>>>, Some(1)),
      Entry(<<"d">>, <<<<"a">>, <<"b">>>>, Some(2)), EntryBare,
      Entry(<<"x">>, <<<<"d">>>>, Some(4))>>

\* message contents with objectives: JSON with a "milestones" list
ObjectiveContents ==
    {[items |-> Some(<<EntryApi, EntryDb>>)], [items |-> Some(<<EntryText, EntryBare>>)],
     [items |-> Some(EntriesMutual)], [items |-> Some(EntriesSameSlug)],
     [items |-> Some(EntriesEight)], [items |-> Some(EntriesFive)]}

\* responses with empty content: every finish reason, with and without a refusal
EmptyResponses ==
    {Choice(text, None, finish_reason, refusal) :
        text \in {<<>>, <<" ">>},
        finish_reason \in {"", "length", "stop", "content_filter"},
        refusal \in BOOLEAN}

\* what the model answers to the Coordinator
CoordinatorResponses ==
    {CallFails, NoChoices} \cup EmptyResponses
        \cup {Choice(<<"x">>, None, "stop", FALSE),
              Choice(JsonText, Some([items |-> None]), "stop", FALSE),
              Choice(JsonText, Some([items |-> Some(<<>>)]), "stop", FALSE),
              Choice(JsonText, Some([items |-> Some(<<EntryText>>)]), "length", FALSE)}
        \cup {Choice(JsonText, Some(c), "stop", FALSE) : c \in ObjectiveContents}

\* CoordinatorAgentInput: the stack and the style
CoordinatorPayloads ==
    {[target_stack |-> TargetStack, style |-> style] : style \in {"strict", "creative"}}

\* CoordinatorAgent.synthesize_objectives up to the first model call of
\* _request_objectives; without a client (no API key) the fallback is returned
CoordinatorStart(payload) ==
    /\ agent.pc = "idle"
    /\ LET attempts == _resolve_coordinator_completion_token_attempts(
                           config.MAX_COMPLETION_TOKENS)
       IN  agent' =
             IF ~config.api_key
             THEN [agent EXCEPT !.name = "coordinator", !.pc = "done",
                                !.payload = Some(payload),
                                !.result = Some(Output(_fallback_objectives(payload)))]
             ELSE [agent EXCEPT !.name = "coordinator", !.pc = "calling",
                                !.payload = Some(payload), !.attempts = attempts,
                                !.attempt_index = 0,
                                !.calls = <<ModelCall(attempts[1], 0, <<>>)>>]
    /\ UNCHANGED <<workflow, config, graph>>

\* the model call in flight is answered: the rest of the pass of the loop of
\* _request_objectives, and when the loop ends the rest of synthesize_objectives
CoordinatorAnswer(response) ==
    /\ agent.name = "coordinator"
    /\ agent.pc = "calling"
    /\ LET request == _request_objectives_step(agent.attempts, agent.attempt_index, response)
           log == Answered(agent.calls, response)
       IN  agent' =
             IF request.next = "continue"
             THEN [agent EXCEPT !.attempt_index = @ + 1,
                                !.calls = Append(log,
                                    ModelCall(agent.attempts[agent.attempt_index + 2], 0, <<>>))]
             ELSE [agent EXCEPT !.pc = "done", !.calls = log, !.request = Some(request),
                                !.result = Some(objectives_from(Val(agent.payload), request,
                                                              response.json))]
    /\ UNCHANGED <<workflow, config, graph>>

\* the agent's caller takes the output
AgentReturn ==
    /\ agent.pc = "done"
    /\ agent' = NoAgent
    /\ UNCHANGED <<workflow, config, graph>>

\* decomposer_agent.py: MAX_CONTEXT_CHARS
MAX_CONTEXT_CHARS == 14000

Min(a, b) == IF a <= b THEN a ELSE b

Max(a, b) == IF a >= b THEN a ELSE b

\* _generate_step_with_gpt lines 186-203: the two attempts
decomposer_attempts(max_completion_tokens) ==
    LET trimmed_context_limit == Max((MAX_CONTEXT_CHARS * 3) \div 4, 4000)
        boosted == Min(max_completion_tokens + 1024, (max_completion_tokens * 3) \div 2)
        boosted_tokens == IF boosted <= max_completion_tokens THEN max_completion_tokens
                          ELSE boosted
    IN  <<[context_limit |-> MAX_CONTEXT_CHARS, summary_limit |-> None,
           max_tokens |-> max_completion_tokens],
          [context_limit |-> trimmed_context_limit, summary_limit |-> Some(3),
           max_tokens |-> boosted_tokens]>>

\* the list is not trimmed
LastOf_all(list, n) == list

\* prior_summaries[-summary_limit:]
LastOf(list, n) ==
    IF n = 0 \/ n >= Len(list) THEN list ELSE SubSeq(list, Len(list) - n + 1, Len(list))

\* attempt_summaries at line 217
attempt_summaries(prior_summaries, attempt) ==
    IF IsNone(attempt.summary_limit) THEN prior_summaries
    ELSE LastOf(prior_summaries, Val(attempt.summary_limit))

\* the model call of an attempt (lines 215-261)
decomposer_call(attempt, prior_summaries) ==
    ModelCall(attempt.max_tokens, attempt.context_limit,
              attempt_summaries(prior_summaries, attempt))

\* f"step-{index + 1:03d}"
StepId(index) == <<"step-", "0">> \o TwoDigits(index + 1)

\* the words whose presence in the milestone title picks the artifacts (_infer_artifacts);
\* titles are sequences of lower-case words
HasWord(title, words) == Range(title) \cap words # {}

\* DecomposerAgent._find_objective
_find_objective(index, milestone_title, objectives) ==
    LET by_order == {i \in 1..Len(objectives) : objectives[i].order = index}
        by_title == {i \in 1..Len(objectives) : objectives[i].title = milestone_title}
        first(S) == objectives[CHOOSE i \in S : \A j \in S : i <= j]
    IN  IF by_order # {} THEN Some(first(by_order))
        ELSE IF by_title # {} THEN Some(first(by_title))
        ELSE None

\* DecomposerAgent._infer_artifacts
_infer_artifacts(milestone, objective, index) ==
    LET fallbacks == <<<<<<"Create discovery notes">>>>, <<<<"Create architecture outline">>>>,
                       <<<<"Create development playbook">>>>,
                       <<<<"Create validation report">>>>>>
    IN  IF ~IsNone(objective) /\ Val(objective).success_criteria # <<>>
        THEN [i \in 1..Len(Val(objective).success_criteria) |->
                 <<"Create artifact covering: ">> \o Val(objective).success_criteria[i]]
        ELSE IF HasWord(milestone, {"research", "requirement"})
        THEN <<<<"Create clarified requirements doc">>>>
        ELSE IF HasWord(milestone, {"architecture", "design"})
        THEN <<<<"Create architecture overview">>, <<"Create API design outline">>>>
        ELSE IF HasWord(milestone, {"implement", "build", "develop"})
        THEN <<<<"Create implementation prompts">>, <<"Create test strategy">>>>
        ELSE IF HasWord(milestone, {"review", "deliver", "launch"})
        THEN <<<<"Create delivery checklist">>, <<"Create final summary">>>>
        ELSE fallbacks[Min(index, Len(fallbacks) - 1) + 1]

\* "; ".join(texts) and ", ".join(texts)
RECURSIVE Join(_, _)
Join(texts, sep) ==
    IF texts = <<>> THEN <<>>
    ELSE IF Len(texts) = 1 THEN texts[1]
    ELSE texts[1] \o <<sep>> \o Join(Tail(texts), sep)

\* DecomposerAgent._build_fallback_step; a prompt is kept as the parts it is formatted
\* from and an output as the artifact it is the slug of (every artifact has letters, so
\* no slug is empty)
_build_fallback_step(payload, index, milestone_title, objective, step_id) ==
    LET expected_artifacts == _infer_artifacts(milestone_title, objective, index)
        focus == IF IsNone(objective) THEN <<"Execute the milestone objective precisely.">>
                 ELSE Val(objective).objective
    IN  [id |-> step_id,
         title |-> milestone_title,
         system_prompt |-> <<"You are a focused senior engineer.",
                             payload.target_stack.backend, payload.target_stack.frontend,
                             payload.target_stack.db, "Focus on: ">> \o focus,
         user_prompt |-> <<"Milestone objective: ">>
                             \o (IF IsNone(objective) THEN milestone_title
                                 ELSE Val(objective).objective)
                             \o (IF index > 0
                                 THEN <<"Completed milestones so far: ">>
                                          \o Join(SubSeq(payload.plan.milestones, 1, index),
                                                  "; ")
                                 ELSE <<>>),
         expected_artifacts |-> expected_artifacts,
         tools |-> <<<<"editor">>, <<"terminal">>, <<"git">>>>,
         acceptance_criteria |->
             Dedupe(<<<<"Directly addresses milestone: ">> \o milestone_title,
                      <<"States required inputs and produced artifacts">>,
                      <<"Uses stable, reusable artifact names">>,
                      <<"Fits within assigned token budget">>>>
                    \o (IF IsNone(objective) THEN <<>> ELSE Val(objective).success_criteria)),
         inputs |-> <<<<"ingested_research">>, <<"project_plan">>>>
                        \o (IF index > 0 THEN <<StepId(index - 1) \o <<":deliverables">>>>
                            ELSE <<>>),
         outputs |-> [i \in 1..Len(expected_artifacts) |-> <<"slug of ">> \o expected_artifacts[i]],
         token_budget |-> 900,
         cited_artifacts |-> IF index = 0 THEN <<<<"research-brief">>>>
                             ELSE <<<<"research-brief">>,
                                    StepId(index - 1) \o <<":deliverable">>>>]

\* _norm_list of _parse_step_json on a list of str
_norm_list(value, fallback) ==
    Or(SelectSeq([i \in 1..Len(value) |-> Strip(value[i])], LAMBDA item : item # <<>>),
       fallback)

\* DecomposerAgent._parse_step_json on the message content: json is the value json.loads
\* gives (None: it raises); a dict has the keys below (a missing str or list is <<>>, a
\* missing or unusable token_budget None)
_parse_step_json(json) ==
    IF IsNone(json) THEN [raised |-> "JSONDecodeError"]
    ELSE IF ~Val(json).is_dict THEN [raised |-> "ValueError"]
    ELSE LET data == Val(json)
         IN  [raised |-> "",
              system_prompt |-> Strip(data.system_prompt),
              user_prompt |-> Strip(data.user_prompt),
              expected_artifacts |-> _norm_list(data.expected_artifacts, <<>>),
              acceptance_criteria |-> _norm_list(data.acceptance_criteria, <<>>),
              inputs |-> _norm_list(data.inputs, <<<<"ingested_research">>, <<"project_plan">>>>),
              outputs |-> _norm_list(data.outputs, <<>>),
              tools |-> _norm_list(data.tools, <<<<"editor">>, <<"terminal">>, <<"git">>>>),
              token_budget |-> data.token_budget]

\* models.PromptStep: the field constraints (min_items=1, token_budget gt 0)
PromptStepValid(step) ==
    /\ step.expected_artifacts # <<>>
    /\ step.acceptance_criteria # <<>>
    /\ step.inputs # <<>>
    /\ step.outputs # <<>>
    /\ step.token_budget > 0

\* the content is left aside: every field is the fallback's
step_from_fallback(data, fallback) == fallback

\* _generate_step_with_gpt lines 294-308: the step built from the parsed content, every
\* field that is missing or empty taken from the fallback
step_from(data, fallback) ==
    [id |-> fallback.id,
     title |-> fallback.title,
     system_prompt |-> Or(data.system_prompt, fallback.system_prompt),
     user_prompt |-> Or(data.user_prompt, fallback.user_prompt),
     expected_artifacts |-> Or(data.expected_artifacts, fallback.expected_artifacts),
     tools |-> Or(data.tools, fallback.tools),
     acceptance_criteria |-> Or(data.acceptance_criteria, fallback.acceptance_criteria),
     inputs |-> Or(data.inputs, fallback.inputs),
     outputs |-> Or(data.outputs, fallback.outputs),
     token_budget |-> IF IsNone(data.token_budget) \/ Val(data.token_budget) = 0
                      THEN fallback.token_budget ELSE Val(data.token_budget),
     cited_artifacts |-> fallback.cited_artifacts]

\* the retry test at line 318
should_retry(finish_reason, attempt_index, attempts) ==
    finish_reason # "" /\ attempt_index < Len(attempts) - 1

\* one pass of the loop of DecomposerAgent._generate_step_with_gpt on the response to the
\* call it made (lines 262-345): a step is returned, an error is raised, or the loop goes
\* on to the next attempt
_generate_step_with_gpt_step(attempts, attempt_index, response, fallback) ==
    IF response.kind = "raise" THEN [next |-> "raise", msg |-> "call_failed"]
    ELSE IF response.kind = "no_choices" THEN [next |-> "raise", msg |-> "no_choices"]
    ELSE IF extract_message_content(response) # <<>>
    THEN LET data == _parse_step_json(response.json)
         IN  IF data.raised # "" THEN [next |-> "raise", msg |-> data.raised]
             ELSE IF ~PromptStepValid(step_from(data, fallback))
             THEN [next |-> "raise", msg |-> "ValidationError"]
             ELSE [next |-> "return", msg |-> "", step |-> step_from(data, fallback)]
    ELSE IF should_retry(response.finish_reason, attempt_index, attempts)
         THEN [next |-> "continue", msg |-> ""]
    ELSE [next |-> "raise", msg |-> "empty_content"]

\* DecomposerAgent._summarize_step
_summarize_step(step) ==
    step.id \o <<": ">> \o step.title \o <<" -> ">> \o Join(step.expected_artifacts, ", ")

\* contents of a Decomposer response that are JSON
StepFull ==
    [is_dict |-> TRUE, system_prompt |-> <<"s">>, user_prompt |-> <<" ", "u">>,
     expected_artifacts |-> <<<<"a">>, <<" ">>>>, acceptance_criteria |-> <<<<"c">>>>,
     inputs |-> <<>>, outputs |-> <<<<"o">>>>, tools |-> <<>>, token_budget |-> Some(700)]

StepPartial ==
    [is_dict |-> TRUE, system_prompt |-> <<" ">>, user_prompt |-> <<"u">>,
     expected_artifacts |-> <<>>, acceptance_criteria |-> <<>>, inputs |-> <<>>,
     outputs |-> <<>>, tools |-> <<>>, token_budget |-> Some(0)]

StepNegative == [StepFull EXCEPT !.token_budget = Some(-1)]

StepList == [is_dict |-> FALSE]

\* what the model answers to the Decomposer
DecomposerResponses ==
    {CallFails, NoChoices,
     Choice(<<>>, None, "length", FALSE), Choice(<<" ">>, None, "length", TRUE),
     Choice(<<>>, None, "stop", FALSE), Choice(<<>>, None, "content_filter", FALSE),
     Choice(<<>>, None, "", FALSE), Choice(<<>>, None, "", TRUE),
     Choice(<<"x">>, None, "stop", FALSE), Choice(JsonText, Some(StepList), "stop", FALSE),
     Choice(JsonText, Some(StepFull), "stop", FALSE),
     Choice(JsonText, Some(StepPartial), "length", FALSE),
     Choice(JsonText, Some(StepNegative), "stop", FALSE)}

\* a MilestoneObjective the Coordinator produced
ObjectiveOne ==
    MilestoneObjective(PositionalId(0), 0, <<"x">>, <<"Clarify">>, <<<<"Stakeholders confirm">>>>,
                       <<>>)

\* a PromptPlan with these milestone titles
PlanOf(milestones) ==
    [context |-> <<"ctx">>, goals |-> <<<<"g">>>>, assumptions |-> <<>>, non_goals |-> <<>>,
     risks |-> <<>>, milestones |-> milestones]

\* DecomposerAgentInput: five milestones without objectives, one milestone with its
\* objective, and no milestone
DecomposerPayloads ==
    {[plan |-> PlanOf(<<<<"research">>, <<"design">>, <<"x">>, <<"x">>, <<"launch">>>>),
      target_stack |-> TargetStack, objectives |-> <<>>],
     [plan |-> PlanOf(<<<<"x">>>>), target_stack |-> TargetStack,
      objectives |-> <<ObjectiveOne>>],
     [plan |-> PlanOf(<<>>), target_stack |-> TargetStack, objectives |-> <<>>]}

\* decompose lines 87-90: the fallback step of the milestone at index
fallback_step(payload, index) ==
    LET milestone_title == payload.plan.milestones[index + 1]
    IN  _build_fallback_step(payload, index, milestone_title,
                             _find_objective(index, milestone_title, payload.objectives),
                             StepId(index))

\* decompose without a client: every step is its fallback
fallback_steps(payload) ==
    [i \in 1..Len(payload.plan.milestones) |-> fallback_step(payload, i - 1)]

\* decompose at the head of its loop: the first model call for the milestone at index, or
\* the output when no milestone is left
next_milestone(a, index) ==
    LET payload == Val(a.payload)
    IN  IF index >= Len(payload.plan.milestones)
        THEN [a EXCEPT !.pc = "done", !.index = index, !.calls = <<>>,
                       !.fallback = None, !.result = Some(Output(a.steps))]
        ELSE [a EXCEPT !.pc = "calling", !.index = index, !.attempt_index = 0,
                       !.fallback = Some(fallback_step(payload, index)),
                       !.calls = <<decomposer_call(a.attempts[1], a.previous_summaries)>>]

\* DecomposerAgent.decompose up to its first model call
DecomposerStart(payload) ==
    /\ agent.pc = "idle"
    /\ agent' =
         IF ~config.api_key
         THEN [agent EXCEPT !.name = "decomposer", !.pc = "done", !.payload = Some(payload),
                            !.steps = fallback_steps(payload),
                            !.result = Some(Output(fallback_steps(payload)))]
         ELSE next_milestone([agent EXCEPT !.name = "decomposer", !.payload = Some(payload),
                                           !.attempts = decomposer_attempts(
                                                            config.MAX_COMPLETION_TOKENS)],
                             0)
    /\ UNCHANGED <<workflow, config, graph>>

\* the model call in flight is answered: the rest of the pass of the loop of
\* _generate_step_with_gpt; when that loop ends, the step (the fallback when it raised) and
\* its summary are appended and decompose goes on to the next milestone
DecomposerAnswer(response) ==
    /\ agent.name = "decomposer"
    /\ agent.pc = "calling"
    /\ LET outcome == _generate_step_with_gpt_step(agent.attempts, agent.attempt_index,
                                                   response, Val(agent.fallback))
           log == Answered(agent.calls, response)
           body == IF outcome.next = "return" THEN Output(outcome.step)
                   ELSE Raises(outcome.msg)
           tried == except_Exception(body, Val(agent.fallback))
           step == tried.value
       IN  agent' =
             IF outcome.next = "continue"
             THEN [agent EXCEPT !.attempt_index = @ + 1,
                                !.calls = Append(log,
                                    decomposer_call(agent.attempts[agent.attempt_index + 2],
                                                    agent.previous_summaries))]
             ELSE IF tried.raised # ""
             THEN [agent EXCEPT !.pc = "done", !.calls = log, !.result = Some(tried)]
             ELSE next_milestone(
                      [agent EXCEPT !.steps = Append(@, step),
                                    !.previous_summaries = Append(@, _summarize_step(step)),
                                    !.request = Some([index |-> agent.index, calls |-> log,
                                                      next |-> outcome.next,
                                                      msg |-> outcome.msg])],
                      agent.index + 1)
    /\ UNCHANGED <<workflow, config, graph>>

\* what _extract_items finds in the chunks for a section (<<>>: nothing), and the
\* sentences _top_sentences finds
PlannerTexts ==
    {[goals |-> <<>>, assumptions |-> <<>>, non_goals |-> <<>>, risks |-> <<>>,
      milestones |-> <<>>, sentences |-> <<>>],
     [goals |-> <<<<"g">>>>, assumptions |-> <<>>, non_goals |-> <<<<"n">>>>,
      risks |-> <<<<"r">>>>, milestones |-> <<<<"design">>>>, sentences |-> <<"t">>]}

\* PlannerAgentInput
PlannerPayloads ==
    {[text |-> text, target_stack |-> TargetStack, style |-> style, objectives |-> objectives] :
        text \in PlannerTexts, style \in {"strict", "creative"},
        objectives \in {<<>>, <<ObjectiveOne>>}}

\* PlannerAgent._default_milestones
_default_milestones(style) ==
    <<<<"Milestone 1: Confirm requirements and domain assumptions">>,
      <<"Milestone 2: Draft architecture and integration approach">>,
      <<"Milestone 3: Implement features iteratively with validation">>,
      <<"Milestone 4: Validate outcomes against risks and acceptance criteria">>,
      IF style = "creative" THEN <<"Milestone 5: Showcase results and gather feedback">>
      ELSE <<"Milestone 5: Final review, polish, and delivery">>>>

\* sorted(objectives, key=order): stable
RECURSIVE SortByOrder(_)
SortByOrder(items) ==
    IF items = <<>> THEN <<>>
    ELSE LET rest == SortByOrder(SubSeq(items, 1, Len(items) - 1))
             x == items[Len(items)]
             before == SelectSeq(rest, LAMBDA y : y.order <= x.order)
             after == SelectSeq(rest, LAMBDA y : y.order > x.order)
         IN  before \o <<x>> \o after

\* PlannerAgent._milestone_titles
_milestone_titles(payload) ==
    LET ordered == SortByOrder(payload.objectives)
    IN  [i \in 1..Len(ordered) |-> ordered[i].title]

\* PlannerAgent._generate_with_heuristics; _extract_items gives what it finds in the text
\* or else its fallback
_generate_with_heuristics(payload) ==
    [context |-> Or(payload.text.sentences, <<"This project builds an application">>)
                     \o <<"Target stack:", payload.target_stack.backend,
                          payload.target_stack.frontend, payload.target_stack.db>>,
     goals |-> Or(payload.text.goals, <<<<"Deliver a working prototype">>>>),
     assumptions |-> Or(payload.text.assumptions,
                        <<<<"Stakeholders provide timely reviews.">>>>),
     non_goals |-> Or(payload.text.non_goals, <<<<"Do not re-architect unrelated systems.">>>>),
     risks |-> Or(payload.text.risks, <<<<"Timeline pressure may limit exploration.">>>>),
     milestones |-> Or(_milestone_titles(payload),
                       Or(payload.text.milestones, _default_milestones(payload.style)))]

\* PlannerAgent._safe_list on a list of str
_safe_list(value) == _normalize_list(value)

\* contents of a Planner response that are JSON
PlanFull ==
    [is_dict |-> TRUE, context |-> <<"c", " ", " ", "x">>, goals |-> <<<<" ">>, <<"g">>>>,
     assumptions |-> <<<<"a">>>>, non_goals |-> <<>>, risks |-> <<>>]

PlanBare ==
    [is_dict |-> TRUE, context |-> <<>>, goals |-> <<>>, assumptions |-> <<>>,
     non_goals |-> <<>>, risks |-> <<>>]

\* what the model answers to the Planner
PlannerResponses ==
    {CallFails, NoChoices, Choice(<<>>, None, "length", FALSE), Choice(<<>>, None, "stop", TRUE),
     Choice(<<"x">>, None, "stop", FALSE), Choice(JsonText, Some(StepList), "stop", FALSE),
     Choice(JsonText, Some(PlanFull), "stop", FALSE),
     Choice(JsonText, Some(PlanBare), "stop", FALSE)}

\* PlannerAgent._generate_with_gpt after its model call (lines 171-198)
_generate_with_gpt(payload, fallback, response) ==
    IF response.kind = "raise" THEN Raises("call_failed")
    ELSE IF response.kind = "no_choices" THEN Raises("no_choices")
    ELSE IF response.text = <<>> THEN Raises("empty_content")
    ELSE IF IsNone(response.json) THEN Raises("JSONDecodeError")
    ELSE IF ~Val(response.json).is_dict THEN Raises("ValueError")
    ELSE LET data == Val(response.json)
         IN  [raised |-> "",
              value |-> [context |-> Or(_clean_text(data.context), fallback.context),
                         goals |-> Or(_safe_list(data.goals), fallback.goals),
                         assumptions |-> Or(_safe_list(data.assumptions),
                                            fallback.assumptions),
                         non_goals |-> Or(_safe_list(data.non_goals), fallback.non_goals),
                         risks |-> Or(_safe_list(data.risks), fallback.risks),
                         milestones |-> Or(_milestone_titles(payload), fallback.milestones)]]

\* PlannerAgent.generate_plan up to its model call; without a client the heuristic plan
PlannerStart(payload) ==
    /\ agent.pc = "idle"
    /\ agent' =
         IF ~config.api_key
         THEN [agent EXCEPT !.name = "planner", !.pc = "done", !.payload = Some(payload),
                            !.result = Some(Output(_generate_with_heuristics(payload)))]
         ELSE [agent EXCEPT !.name = "planner", !.pc = "calling", !.payload = Some(payload),
                            !.fallback = Some(_generate_with_heuristics(payload)),
                            !.calls = <<ModelCall(900, 0, <<>>)>>]
    /\ UNCHANGED <<workflow, config, graph>>

\* the model call is answered: the rest of generate_plan
PlannerAnswer(response) ==
    /\ agent.name = "planner"
    /\ agent.pc = "calling"
    /\ LET plan == _generate_with_gpt(Val(agent.payload), Val(agent.fallback), response)
       IN  agent' = [agent EXCEPT !.pc = "done", !.calls = Answered(@, response),
                                  !.request = Some([raised |-> plan.raised]),
                                  !.result = Some(except_Exception(plan,
                                                                   Val(agent.fallback)))]
    /\ UNCHANGED <<workflow, config, graph>>

\* MilestonesAgent._heuristic_milestones: five fixed titles, each with the highlights next
\* to it (or the summary) as context
_heuristic_milestones(summary) ==
    LET base_titles == <<<<"Collect detailed requirements">>, <<"Design target architecture">>,
                         <<"Implement core services">>, <<"Integrate experience and data">>,
                         <<"Validate and prepare launch">>>>
        context_bits(idx) ==
            SubSeq(summary.highlights, idx, Min(idx + 1, Len(summary.highlights)))
    IN  [idx \in 1..Len(base_titles) |->
            Milestone(idx, base_titles[idx],
                      IF context_bits(idx) # <<>> THEN Join(context_bits(idx), " ")
                      ELSE summary.summary)]

\* the smallest id from next_id on that is not in existing_ids (the inner while loop)
RECURSIVE NextFreeId(_, _)
NextFreeId(next_id, existing_ids) ==
    IF next_id \in existing_ids THEN NextFreeId(next_id + 1, existing_ids) ELSE next_id

\* the loop that pads, left out
PadToFive_none(filtered, existing_ids, next_id) == filtered

\* the outer while loop of _ensure_five_milestones
RECURSIVE PadToFive(_, _, _)
PadToFive(filtered, existing_ids, next_id) ==
    IF Len(filtered) >= 5 THEN filtered
    ELSE LET id == NextFreeId(next_id, existing_ids)
         IN  PadToFive(Append(filtered,
                              Milestone(id, <<"Milestone ">> \o Decimal(id)
                                                \o <<": Expand coverage">>, <<>>)),
                       existing_ids \cup {id}, id + 1)

RECURSIVE InsertMilestone(_, _)
InsertMilestone(x, sorted) ==
    IF sorted = <<>> THEN <<x>>
    ELSE IF x.milestone_id < Head(sorted).milestone_id THEN <<x>> \o sorted
    ELSE <<Head(sorted)>> \o InsertMilestone(x, Tail(sorted))

\* filtered.sort(key=lambda item: item.milestone_id): stable
RECURSIVE SortMilestones(_)
SortMilestones(items) ==
    IF items = <<>> THEN <<>>
    ELSE InsertMilestone(items[Len(items)],
                         SortMilestones(SubSeq(items, 1, Len(items) - 1)))

\* list[:n]
FirstOf(list, n) == SubSeq(list, 1, Min(n, Len(list)))

\* MilestonesAgent._ensure_five_milestones
_ensure_five_milestones(milestones) ==
    LET filtered == SelectSeq(milestones, LAMBDA m : m.details # <<>>)
        existing_ids == {filtered[i].milestone_id : i \in 1..Len(filtered)}
    IN  FirstOf(SortMilestones(PadToFive(filtered, existing_ids, 1)), 5)

\* an entry of the "milestones" array: milestoneID is None when the key is missing, and
\* int() raises on it when it is no number
Item(milestoneID, details, context) ==
    [milestoneID |-> milestoneID, is_number |-> TRUE, MilestoneDetails |-> details,
     Context |-> context]

\* generate_milestones lines 219-227: the Milestone of every entry; int() or the Milestone
\* model (milestone_id >= 1) may raise
parsed_milestones(raw_milestones) ==
    LET id_of(idx) == IF IsNone(raw_milestones[idx].milestoneID) THEN idx
                      ELSE Val(raw_milestones[idx].milestoneID)
    IN  IF \E idx \in 1..Len(raw_milestones) : ~raw_milestones[idx].is_number
        THEN Raises("ValueError")
        ELSE IF \E idx \in 1..Len(raw_milestones) : id_of(idx) < 1
        THEN Raises("ValidationError")
        ELSE [raised |-> "",
              value |-> [idx \in 1..Len(raw_milestones) |->
                            Milestone(id_of(idx), Strip(raw_milestones[idx].MilestoneDetails),
                                      Strip(raw_milestones[idx].Context))]]

\* generate_milestones lines 201-236 on the response to its model call: the plan's
\* milestones.  An empty content parses as {} (_parse_json); json is the value json.loads
\* gives otherwise, a dict with items its "milestones" (None: not a list of dicts; a
\* missing key is the empty list)
milestones_from(summary, response) ==
    LET content == IF response.kind = "choice" THEN extract_message_content(response)
                   ELSE <<>>
        parsed == IF content = <<>> THEN parsed_milestones(<<>>)
                  ELSE IF IsNone(response.json) THEN Raises("JSONDecodeError")
                  ELSE IF ~Val(response.json).is_dict THEN Raises("AttributeError")
                  ELSE IF IsNone(Val(response.json).items) THEN Raises("TypeError")
                  ELSE parsed_milestones(Val(Val(response.json).items))
        body == IF response.kind = "raise" THEN Raises("call_failed")
                ELSE IF parsed.raised # "" THEN Raises(parsed.raised)
                ELSE Output(_ensure_five_milestones(parsed.value))
    IN  except_Exception(body, _heuristic_milestones(summary))

\* the "milestones" arrays of the model: none, three (one without details), five (ids
\* missing, repeated, out of order), seven
ItemLists ==
    LET x == <<"x">>
    IN  {<<>>,
         <<Item(Some(2), x, <<>>), Item(Some(4), <<" ">>, x), Item(None, <<" ", "a">>, <<>>)>>,
         <<Item(Some(5), x, <<>>), Item(Some(5), x, <<>>), Item(None, x, <<>>),
           Item(Some(1), x, <<>>), Item(Some(9), <<>>, <<>>)>>,
         <<Item(None, x, <<>>), Item(None, x, <<>>), Item(None, x, <<>>), Item(None, x, <<>>),
           Item(None, x, <<>>)>>,
         <<Item(Some(7), x, <<>>), Item(Some(6), x, <<>>), Item(Some(5), <<>>, <<>>),
           Item(Some(4), x, <<>>), Item(Some(3), x, <<>>), Item(Some(2), x, <<>>),
           Item(Some(1), x, <<>>)>>,
         <<Item(Some(0), x, <<>>)>>,
         <<[Item(Some(1), x, <<>>) EXCEPT !.is_number = FALSE]>>}

\* what the model answers to generate_milestones
MilestonesResponses ==
    {CallFails, NoChoices, Choice(<<>>, None, "length", FALSE),
     Choice(<<"x">>, None, "stop", FALSE), Choice(JsonText, Some(StepList), "stop", FALSE),
     Choice(JsonText, Some([is_dict |-> TRUE, items |-> None]), "stop", FALSE)}
        \cup {Choice(JsonText, Some([is_dict |-> TRUE, items |-> Some(items)]), "stop", FALSE) :
                 items \in ItemLists}

\* the approved BlueprintSummary, as far as generate_milestones reads it
AgentSummaries ==
    {[summary |-> <<"s">>, highlights |-> <<>>],
     [summary |-> <<"s">>, highlights |-> <<<<"h">>, <<"i">>, <<"j">>>>]}

\* MilestonesAgent.generate_milestones up to its model call; without a client the
\* heuristic milestones
MilestonesStart(summary) ==
    /\ agent.pc = "idle"
    /\ agent' =
         IF ~config.api_key
         THEN [agent EXCEPT !.name = "milestones", !.pc = "done", !.payload = Some(summary),
                            !.result = Some(Output(_heuristic_milestones(summary)))]
         ELSE [agent EXCEPT !.name = "milestones", !.pc = "calling",
                            !.payload = Some(summary),
                            !.calls = <<ModelCall(config.MAX_COMPLETION_TOKENS, 0, <<>>)>>]
    /\ UNCHANGED <<workflow, config, graph>>

\* the model call is answered: the rest of generate_milestones
MilestonesAnswer(response) ==
    /\ agent.name = "milestones"
    /\ agent.pc = "calling"
    /\ agent' = [agent EXCEPT !.pc = "done", !.calls = Answered(@, response),
                              !.result = Some(milestones_from(Val(agent.payload), response))]
    /\ UNCHANGED <<workflow, config, graph>>

\* the environment: MAX_COMPLETION_TOKENS as config.py reads it, and whether there is
\* an API key (a client)
InitAgents ==
    /\ sessions = <<>>
    /\ orch = <<>>
    /\ nextRun = 0
    /\ calls = 0
    /\ approvedPlans = <<>>
    /\ last = NoCall
    /\ th = <<>>
    /\ lock = RLockFree
    /\ \E settings \in TokenSettings, api_key \in BOOLEAN :
          config = [MAX_COMPLETION_TOKENS |-> get_max_completion_tokens(settings),
                    api_key |-> api_key]
    /\ agent = NoAgent
    /\ graph = NoGraph

NextAgents ==
    \/ \E payload \in CoordinatorPayloads : CoordinatorStart(payload)
    \/ \E response \in CoordinatorResponses : CoordinatorAnswer(response)
    \/ \E payload \in DecomposerPayloads : DecomposerStart(payload)
    \/ \E response \in DecomposerResponses : DecomposerAnswer(response)
    \/ \E payload \in PlannerPayloads : PlannerStart(payload)
    \/ \E response \in PlannerResponses : PlannerAnswer(response)
    \/ \E summary \in AgentSummaries : MilestonesStart(summary)
    \/ \E response \in MilestonesResponses : MilestonesAnswer(response)
    \/ AgentReturn

SpecAgents == InitAgents /\ [][NextAgents]_vars

(***************************************************************************)
(* The GraphStore of one session (SpecGraph): the orchestrator methods     *)
(* that touch it (ingest_blueprint and regenerate_summary replace it,      *)
(* generate_milestones assigns the plan's milestones and stores the audit) *)
(* and its own four mutators and snapshot(), called in any order.          *)
(* graph.last and graph.prev are the last two calls, graph.before the      *)
(* nodes before the last.                                                  *)
(***************************************************************************)
\* names handed to upsert_node
GraphNames == {API, <<"x">>, <<" ">>}

\* descriptions handed to upsert_node
GraphDescriptions == {None, Some(<<"d">>)}

\* milestone lists handed to assign_milestones and produced by the MilestonesAgent: the
\* second mentions two components, the third repeats an id and mentions a component twice
GraphMilestoneLists ==
    MilestoneLists
        \cup {<<Milestone(5, <<"D", "b">>, <<>>), Milestone(5, <<"x">>, <<"a", "p", "i">>),
                Milestone(1, <<"d", "b", " ", "d", "b">>, <<>>),
                Milestone(2, <<"x">>, <<>>), Milestone(3, <<"x">>, <<>>)>>}

\* the audit model's parsed answer in a session of SpecGraph, or None when it is absent
\* or fails: also one that names a node twice, pads a name with spaces, gives a blank
\* name, names what is no node, and calls uncovered what the store has covered
GraphAuditResponses ==
    AuditResponses
        \cup {Some([covered_nodes |-> <<<<" ", "D", "b", " ">>, <<"z">>, Api, Api>>,
                    uncovered_nodes |-> <<Api, <<" ">>>>,
                    notes |-> None])}

\* node ids handed to set_assignment: two that components give, one that none gives
GraphNodeIds == {<<"a", "p", "i">>, <<"d", "b">>, <<"z">>}

\* milestone ids handed to set_assignment
GraphMilestoneIds == {1, 7}

\* a call on the orchestrator or on its store
GraphCall(op, arg) == Some([op |-> op, arg |-> arg])

\* the call is made: the orchestrator afterwards, and the history
GraphStep(o, op, arg) ==
    /\ graph.ops < MaxGraphOps
    /\ graph' = [o |-> Some(o), ops |-> graph.ops + 1, last |-> GraphCall(op, arg),
                 prev |-> graph.last,
                 before |-> IF IsNone(graph.o) THEN EmptyStore ELSE Val(graph.o).graph_store]
    /\ UNCHANGED <<workflow, config, agent>>

\* CodingOrchestrator(...).ingest_blueprint(text): the session is created
G_Ingest(components) ==
    /\ IsNone(graph.o)
    /\ GraphStep(ingest_blueprint(NewOrchestrator(1), TextA, "absent", 1, components).orch,
                 "ingest_blueprint", components)

\* CodingOrchestrator.regenerate_summary
G_Regenerate(components) ==
    /\ ~IsNone(graph.o)
    /\ GraphStep(regenerate_summary(Val(graph.o), "absent", 1, components).orch,
                 "regenerate_summary", components)

\* CodingOrchestrator.approve_summary
G_ApproveSummary(approved) ==
    /\ ~IsNone(graph.o)
    /\ GraphStep(approve_summary(Val(graph.o), approved).orch, "approve_summary", approved)

\* CodingOrchestrator.generate_milestones
G_GenerateMilestones(milestones, response) ==
    /\ ~IsNone(graph.o)
    /\ GraphStep(generate_milestones(Val(graph.o), 1, milestones, response).orch,
                 "generate_milestones", milestones)

\* a method of the session's GraphStore is called: the orchestrator with the store it leaves
GraphStoreStep(store, op, arg) ==
    /\ ~IsNone(graph.o)
    /\ GraphStep([Val(graph.o) EXCEPT !.graph_store = store], op, arg)

\* GraphStore.load_components
G_load_components(components) ==
    /\ ~IsNone(graph.o)
    /\ GraphStoreStep(load_components(Val(graph.o).graph_store, components),
                      "load_components", components)

\* GraphStore.upsert_node
G_upsert_node(name, description) ==
    /\ ~IsNone(graph.o)
    /\ GraphStoreStep(upsert_node(Val(graph.o).graph_store, name, description),
                      "upsert_node", name)

\* GraphStore.assign_milestones
G_assign_milestones(milestones) ==
    /\ ~IsNone(graph.o)
    /\ GraphStoreStep(assign_milestones(Val(graph.o).graph_store, milestones),
                      "assign_milestones", milestones)

\* GraphStore.set_assignment
G_set_assignment(node_id, milestone_id) ==
    /\ ~IsNone(graph.o)
    /\ GraphStoreStep(set_assignment(Val(graph.o).graph_store, node_id, milestone_id),
                      "set_assignment", node_id)

\* GraphStore.snapshot: the snapshot is returned, the store is the one read
G_snapshot ==
    /\ ~IsNone(graph.o)
    /\ GraphStoreStep(Val(graph.o).graph_store, "snapshot", snapshot(Val(graph.o).graph_store))

InitGraph ==
    /\ sessions = <<>>
    /\ orch = <<>>
    /\ nextRun = 0
    /\ calls = 0
    /\ approvedPlans = <<>>
    /\ last = NoCall
    /\ th = <<>>
    /\ AsideIdle

NextGraph ==
    \/ \E components \in ComponentLists : G_Ingest(components)
    \/ \E components \in ComponentLists : G_Regenerate(components)
    \/ \E approved \in BOOLEAN : G_ApproveSummary(approved)
    \/ \E milestones \in GraphMilestoneLists, response \in GraphAuditResponses :
           G_GenerateMilestones(milestones, response)
    \/ \E components \in ComponentLists : G_load_components(components)
    \/ \E name \in GraphNames, description \in GraphDescriptions :
           G_upsert_node(name, description)
    \/ \E milestones \in GraphMilestoneLists : G_assign_milestones(milestones)
    \/ \E node_id \in GraphNodeIds, milestone_id \in GraphMilestoneIds :
           G_set_assignment(node_id, milestone_id)
    \/ G_snapshot

SpecGraph == InitGraph /\ [][NextGraph]_vars

(***************************************************************************)
(* The functions of the agents and of the review service that are checked  *)
(* on their own (SpecFunctions): a step is one call, with its arguments in *)
(* agent.payload and what it returned in agent.result.                     *)
(***************************************************************************)
\* the strings over an alphabet up to a length
StringsOver(alphabet, n) == UNION {[1..k -> alphabet] : k \in 0..n}

\* the record of a function that returned
FunctionCall(name, arguments, result) ==
    [NoAgent EXCEPT !.name = name, !.pc = "done", !.payload = Some(arguments),
                    !.result = Some(result)]

\* candidates of _sanitize_id: a lower and an upper case letter, a digit, the hyphen,
\* another character
IdCandidates == StringsOver({"a", "A", "0", "-", "!"}, MaxIdLen)

\* the index of _sanitize_id: None, the first position, a position of two digits
IdIndexes == {None, Some(0), Some(11)}

\* CoordinatorAgent._sanitize_id(candidate, index)
F_sanitize_id(candidate, index) ==
    /\ agent = NoAgent
    /\ agent' = FunctionCall("_sanitize_id", [candidate |-> candidate, index |-> index],
                             _sanitize_id(candidate, index))
    /\ UNCHANGED <<workflow, config, graph>>

\* "\n\n".join(chunks), a text being its characters
RECURSIVE JoinParagraphs(_)
JoinParagraphs(chunks) ==
    IF chunks = <<>> THEN <<>>
    ELSE IF Len(chunks) = 1 THEN chunks[1]
    ELSE chunks[1] \o <<"\n", "\n">> \o JoinParagraphs(Tail(chunks))

\* str.rfind(ch): the index, counted from 0, of the last ch of the text, -1 without one
RECURSIVE rfind(_, _)
rfind(text, ch) ==
    IF text = <<>> THEN -1
    ELSE IF text[Len(text)] = ch THEN Len(text) - 1
    ELSE rfind(SubSeq(text, 1, Len(text) - 1), ch)

\* text[:stop] for stop >= 0
UpTo(text, stop) == SubSeq(text, 1, Min(stop, Len(text)))

_compress_chunks_inclusive(chunks, limit) ==
    LET joined == JoinParagraphs(chunks)
        truncated == UpTo(joined, limit)
        cutoff == rfind(truncated, "\n")
    IN  IF Len(joined) <= limit THEN joined
        ELSE IF 10 * cutoff >= 6 * limit THEN UpTo(truncated, cutoff)
        ELSE truncated

\* CoordinatorAgent._compress_chunks, PlannerAgent._compress_chunks and the end of
\* DecomposerAgent._compress_context; cutoff > limit * 0.6 compares an integer with a
\* float that is the exact product whenever the product is an integer
_compress_chunks(chunks, limit) ==
    LET joined == JoinParagraphs(chunks)
        truncated == UpTo(joined, limit)
        cutoff == rfind(truncated, "\n")
    IN  IF Len(joined) <= limit THEN joined
        ELSE IF 10 * cutoff > 6 * limit THEN UpTo(truncated, cutoff)
        ELSE truncated

\* chunks of _compress_chunks: one or two texts of letters and line breaks
ChunkTexts == StringsOver({"x", "\n"}, MaxChunkLen)
ChunkLists == {<<a>> : a \in ChunkTexts} \cup (ChunkTexts \X ChunkTexts)

F_compress_chunks(chunks, limit) ==
    /\ agent = NoAgent
    /\ agent' = FunctionCall("_compress_chunks", [chunks |-> chunks, limit |-> limit],
                             _compress_chunks(chunks, limit))
    /\ UNCHANGED <<workflow, config, graph>>

(***************************************************************************)
(* The review service (services/review.py) and the reviewer agent.  A      *)
(* score is kept in hundredths: round(x, 2) of 1.0 - 0.15 * n is the float *)
(* nearest to (100 - 15 * n) / 100 for every n.                            *)
(***************************************************************************)
\* len(text.split()): the runs of characters that are not whitespace
WordCount(text) ==
    Cardinality({i \in 1..Len(text) : ~IsSpace(text[i]) /\ (i = 1 \/ IsSpace(text[i - 1]))})

\* acceptance criteria with a measurable qualifier
Measurable(acceptance_criteria) ==
    \E i \in 1..Len(acceptance_criteria) :
        \/ Contains(Lower(acceptance_criteria[i]), <<"c", "r", "i", "t", "e", "r", "i", "a">>)
        \/ Contains(Lower(acceptance_criteria[i]), <<"d", "e", "f", "i", "n", "e">>)

\* deductions.append(text) under a condition
Deduct(condition, text) == IF condition THEN <<<<text>>>> ELSE <<>>

evaluate_step_budget_inclusive(step) ==
    LET deductions ==
            Deduct(step.inputs = <<>>, "Declare explicit inputs for the agent.")
            \o Deduct(step.outputs = <<>>, "List explicit outputs/artifacts.")
            \o Deduct(step.cited_artifacts = <<>>, "Reference at least one prior artifact.")
            \o Deduct(step.token_budget >= 1200, "Reduce token budget below 1200 to control cost.")
            \o Deduct(~Measurable(step.acceptance_criteria),
                      "Tighten acceptance criteria with measurable statements.")
            \o Deduct(WordCount(step.system_prompt) > 250,
                      "Condense the system prompt to stay focused.")
    IN  [score |-> Max(0, 100 - 15 * Len(deductions)), deductions |-> deductions]

\* review.evaluate_step(step): the score, in hundredths, and the suggested improvements
evaluate_step(step) ==
    LET deductions ==
            Deduct(step.inputs = <<>>, "Declare explicit inputs for the agent.")
            \o Deduct(step.outputs = <<>>, "List explicit outputs/artifacts.")
            \o Deduct(step.cited_artifacts = <<>>, "Reference at least one prior artifact.")
            \o Deduct(step.token_budget > 1200, "Reduce token budget below 1200 to control cost.")
            \o Deduct(~Measurable(step.acceptance_criteria),
                      "Tighten acceptance criteria with measurable statements.")
            \o Deduct(WordCount(step.system_prompt) > 250,
                      "Condense the system prompt to stay focused.")
    IN  [score |-> Max(0, 100 - 15 * Len(deductions)), deductions |-> deductions]

\* a text of n words of one letter, a space between two words
WordsOf(n) == [i \in 1..(2 * n - 1) |-> IF i % 2 = 1 THEN "x" ELSE " "]

\* the steps handed to the reviewer: each list empty or not, a token budget at the
\* default, at 1200 and above it, criteria with and without "criteria" or "define" in
\* either case, a system prompt of one word, of 250 words and of 251 words
ReviewCriteria ==
    {<<>>, <<<<"o", "k">>>>, <<<<"o", "k">>, <<"D", "e", "f", "i", "n", "e", " ", "x">>>>,
     <<<<"a", " ", "c", "r", "i", "t", "e", "r", "i", "a">>>>}
ReviewSteps ==
    [id : {<<"step-001">>},
     inputs : {<<>>, <<<<"research-brief">>>>},
     outputs : {<<>>, <<<<"step-001:deliverable">>>>},
     cited_artifacts : {<<>>, <<<<"research-brief">>>>},
     token_budget : {512, 1200, 1201},
     acceptance_criteria : ReviewCriteria,
     system_prompt : {WordsOf(1), WordsOf(250), WordsOf(251)},
     rubric_score : {None},
     suggested_edits : {None}]

F_evaluate_step(step) ==
    /\ agent = NoAgent
    /\ agent' = FunctionCall("evaluate_step", [step |-> step], evaluate_step(step))
    /\ UNCHANGED <<workflow, config, graph>>

\* f"{step.id} needs clarification: {step.suggested_edits}"
Concern(step) ==
    step.id \o <<" needs clarification: ">>
    \o (IF IsNone(step.suggested_edits) THEN <<"None">> ELSE Val(step.suggested_edits))

NoBlockingIssues == <<"No blocking issues detected; proceed to execution.">>

summarize_concerns_inclusive(steps) ==
    LET issues == [i \in 1..Len(steps) |->
                      IF ~IsNone(steps[i].rubric_score) /\ Val(steps[i].rubric_score) <= 70
                      THEN <<Concern(steps[i])>> ELSE <<>>]
        flat[i \in 0..Len(steps)] == IF i = 0 THEN <<>> ELSE flat[i - 1] \o issues[i]
    IN  IF flat[Len(steps)] = <<>> THEN <<NoBlockingIssues>> ELSE flat[Len(steps)]

\* review.summarize_concerns(steps)
summarize_concerns(steps) ==
    LET issues == [i \in 1..Len(steps) |->
                      IF ~IsNone(steps[i].rubric_score) /\ Val(steps[i].rubric_score) < 70
                      THEN <<Concern(steps[i])>> ELSE <<>>]
        flat[i \in 0..Len(steps)] == IF i = 0 THEN <<>> ELSE flat[i - 1] \o issues[i]
    IN  IF flat[Len(steps)] = <<>> THEN <<NoBlockingIssues>> ELSE flat[Len(steps)]

\* review.summarize_strengths(plan, steps)
summarize_strengths(plan, steps) ==
    <<<<"Plan provides ", Len(plan.goals), " clear goals and ", Len(plan.milestones),
        " milestones">>,
      <<"Steps declare acceptance criteria for determinism">>>>
    \o (IF \E i \in 1..Len(steps) : steps[i].cited_artifacts # <<>>
        THEN <<<<"Steps cite prior artifacts to ensure continuity">>>> ELSE <<>>)

\* ReviewerAgent.review lines 28-39: the step with its score and its suggested edits
reviewed(step) ==
    LET evaluated == evaluate_step(step)
    IN  [step EXCEPT !.rubric_score = Some(evaluated.score),
                     !.suggested_edits = IF evaluated.deductions # <<>>
                                         THEN Some(Join(evaluated.deductions, "; "))
                                         ELSE None]

\* ReviewerAgent.review(payload): the reviewed steps and the report; the overall score is
\* kept as the sum of the scores and the number it is divided by, before round(x, 2)
review(payload) ==
    LET reviewed_steps == [i \in 1..Len(payload.steps) |-> reviewed(payload.steps[i])]
        feedback == [i \in 1..Len(reviewed_steps) |->
                        [step_id |-> reviewed_steps[i].id,
                         rubric_score |-> Val(reviewed_steps[i].rubric_score),
                         notes |-> IF Truthy(reviewed_steps[i].suggested_edits)
                                   THEN Val(reviewed_steps[i].suggested_edits)
                                   ELSE <<"Meets rubric expectations.">>]]
        total[i \in 0..Len(reviewed_steps)] ==
            IF i = 0 THEN 0 ELSE total[i - 1] + Val(reviewed_steps[i].rubric_score)
    IN  [steps |-> reviewed_steps,
         report |-> [run_id |-> payload.run_id,
                     overall_score |-> [sum |-> total[Len(reviewed_steps)],
                                        over |-> Max(Len(reviewed_steps), 1)],
                     strengths |-> summarize_strengths(payload.plan, reviewed_steps),
                     concerns |-> summarize_concerns(reviewed_steps),
                     step_feedback |-> feedback]]

\* the step at a position (from 0) of a list handed to the reviewer: one that meets the
\* rubric, one with two violations (0.7) and one with three (0.55)
StepAt(index, violations) ==
    [id |-> StepId(index),
     inputs |-> IF violations >= 3 THEN <<>> ELSE <<<<"research-brief">>>>,
     outputs |-> <<<<"deliverable">>>>,
     cited_artifacts |-> IF violations >= 2 THEN <<>> ELSE <<<<"research-brief">>>>,
     token_budget |-> IF violations >= 1 THEN 1201 ELSE 512,
     acceptance_criteria |-> <<<<"D", "e", "f", "i", "n", "e", " ", "x">>>>,
     system_prompt |-> WordsOf(1),
     rubric_score |-> None,
     suggested_edits |-> None]
ReviewLists ==
    UNION {{[i \in 1..n |-> StepAt(i - 1, v[i])] : v \in [1..n -> {0, 2, 3}]} :
              n \in 0..MaxReviewSteps}
ReviewerPayloads ==
    {[run_id |-> "run", plan |-> PlanOf(<<<<"m">>>>), steps |-> steps] : steps \in ReviewLists}

F_review(payload) ==
    /\ agent = NoAgent
    /\ agent' = FunctionCall("review", payload, review(payload))
    /\ UNCHANGED <<workflow, config, graph>>

InitFunctions ==
    /\ sessions = <<>>
    /\ orch = <<>>
    /\ nextRun = 0
    /\ calls = 0
    /\ approvedPlans = <<>>
    /\ last = NoCall
    /\ th = <<>>
    /\ AsideIdle

\* a function is called when none is, and every call returns
NextFunctions ==
    \/ /\ agent = NoAgent
       /\ \E candidate \in IdCandidates, index \in IdIndexes : F_sanitize_id(candidate, index)
    \/ /\ agent = NoAgent
       /\ \E chunks \in ChunkLists, limit \in 0..MaxLimit : F_compress_chunks(chunks, limit)
    \/ /\ agent = NoAgent
       /\ \E step \in ReviewSteps : F_evaluate_step(step)
    \/ /\ agent = NoAgent
       /\ \E payload \in ReviewerPayloads : F_review(payload)
    \/ AgentReturn

SpecFunctions == InitFunctions /\ [][NextFunctions]_vars

(***************************************************************************)
(* The workflow contract under a single caller (Spec).  A step is told by  *)
(* the record of the call it completes (last'); the state it started from  *)
(* is the unprimed one.                                                    *)
(***************************************************************************)
\* the orchestrator the session of run r refers to
OrchOf(r) == orch[sessions[r].orchestrator]

\* C1: generate_milestones succeeds only if a summary exists and its approval flag is
\* true when it is called; otherwise it raises OrchestratorInvalidState and leaves every
\* field of every session unchanged.
C1_GenerateMilestonesGated ==
    [][\A r \in DOMAIN sessions :
         (last'.op = "generate_milestones" /\ last'.run = r) =>
            LET ready == ~IsNone(OrchOf(r).summary) /\ OrchOf(r).summary_approved
            IN  /\ last'.raised = "" => ready
                /\ ~ready => /\ last'.raised = "OrchestratorInvalidState"
                             /\ orch' = orch
                             /\ sessions' = sessions]_vars

\* generate_milestones is refused on a session that already holds a plan, because the
\* summary was rejected afterwards
C1_RefusedAfterRejection ==
    /\ last.op = "generate_milestones"
    /\ last.run \in DOMAIN sessions
    /\ last.raised = "OrchestratorInvalidState"
    /\ last.msg = "summary_not_approved"
    /\ ~IsNone(OrchOf(last.run).milestones)

\* C2: generate_prompts succeeds only if a summary and a milestone plan exist and the
\* milestone approval flag is true when it is called; otherwise it raises
\* OrchestratorInvalidState naming the first missing precondition and leaves the prompts
\* and every other field of every session unchanged.
C2_GeneratePromptsGated ==
    [][\A r \in DOMAIN sessions :
         (last'.op = "generate_prompts" /\ last'.run = r) =>
            LET o == OrchOf(r)
                missing == IF IsNone(o.summary) THEN "no_summary"
                           ELSE IF IsNone(o.milestones) THEN "no_milestones"
                           ELSE IF ~o.milestones_approved THEN "milestones_not_approved"
                           ELSE ""
            IN  /\ last'.raised = "" => missing = ""
                /\ missing # "" => /\ last'.raised = "OrchestratorInvalidState"
                                   /\ last'.msg = missing
                                   /\ orch' = orch
                                   /\ sessions' = sessions]_vars

\* generate_prompts is refused on a session that holds prompts from an earlier approval
C2_RefusedWithPromptsKept ==
    /\ last.op = "generate_prompts"
    /\ last.run \in DOMAIN sessions
    /\ last.raised = "OrchestratorInvalidState"
    /\ last.msg = "milestones_not_approved"
    /\ ~IsNone(OrchOf(last.run).prompts)

\* the graph load_components builds from a component list: one node per distinct slug,
\* named after the first component with that slug, in order, none linked to a milestone
SeededFrom(store, components) ==
    /\ \A i \in 1..Len(store) : store[i].milestone_ids = <<>>
    /\ {store[i].id : i \in 1..Len(store)}
           = {Slugify(Strip(components[j])) : j \in 1..Len(components)}
    /\ Len(store) = Cardinality({Slugify(Strip(components[j])) : j \in 1..Len(components)})
    /\ \A i \in 1..Len(store) :
         \E j \in 1..Len(components) :
            /\ store[i].name = Strip(components[j])
            /\ store[i].id = Slugify(Strip(components[j]))
            /\ \A k \in 1..(j - 1) : Slugify(Strip(components[k])) # store[i].id

\* the downstream state of an orchestrator is reset
Reset(o) ==
    /\ ~IsNone(o.summary)
    /\ ~o.summary_approved
    /\ IsNone(o.milestones)
    /\ ~o.milestones_approved
    /\ IsNone(o.prompts)
    /\ IsNone(o.graph_snapshot)

\* C3 (as amended): after ingest_blueprint (create_session) or regenerate_summary
\* completes, from any state, the session holds a new summary, not approved, no plan,
\* milestones not approved, no prompts, no graph snapshot, and a fresh graph store with
\* one node per distinct slug of the new summary's components (named after the first
\* component with that slug), each with an empty milestone-id list.
C3_RegenerationResets ==
    [][\A r \in DOMAIN sessions' :
         (/\ last'.op \in {"create_session", "regenerate_summary"}
          /\ last'.run = r
          /\ last'.raised = "") =>
            LET o == orch'[sessions'[r].orchestrator]
            IN  /\ Reset(o)
                /\ r \in DOMAIN sessions => Val(o.summary).gen \notin SummaryRefsOf(OrchOf(r))
                /\ SeededFrom(o.graph_store, Val(o.summary).components)]_vars

\* a regeneration from a state with approved milestones and generated prompts, whose new
\* components share a slug
C3_RegeneratedAfterPrompts ==
    /\ last.op = "regenerate_summary"
    /\ last.run \in DOMAIN sessions
    /\ last.raised = ""
    /\ Val(last.before).milestones_approved
    /\ Val(last.before).prompts_ready
    /\ Len(OrchOf(last.run).graph_store) < Len(Val(OrchOf(last.run).summary).components)

\* C3 (as stated): ... and a fresh graph store whose nodes are exactly the new summary's
\* components, each with an empty milestone-id list.
C3_NodesAreExactlyComponents ==
    \A r \in DOMAIN sessions :
        (/\ last.op \in {"create_session", "regenerate_summary"}
         /\ last.run = r
         /\ last.raised = "") =>
            /\ Reset(OrchOf(r))
            /\ [i \in 1..Len(OrchOf(r).graph_store) |-> OrchOf(r).graph_store[i].name]
                   = Val(OrchOf(r).summary).components
            /\ \A i \in 1..Len(OrchOf(r).graph_store) :
                   OrchOf(r).graph_store[i].milestone_ids = <<>>

\* C4: whenever generate_prompts succeeds, the milestone plan it consumes is one on which
\* approve_milestones(true) was called after that plan was generated.
C4_PromptsFromApprovedPlan ==
    \A r \in DOMAIN sessions :
        (last.op = "generate_prompts" /\ last.run = r /\ last.raised = "") =>
            approvedPlans[sessions[r].orchestrator]

\* what the workflow says when a call comes out of order
OrderingViolations ==
    {"no_summary", "summary_not_approved", "no_milestones", "milestones_not_approved",
     "workflow_incomplete", "summary_not_available", "milestones_not_generated",
     "prompts_not_generated"}

\* C5: every workflow-ordering violation made through the service layer is reported as
\* OrchestratorInvalidState, not as another kind of error.
C5_OrderingIsInvalidState ==
    last.msg \in OrderingViolations => last.raised = "OrchestratorInvalidState"

\* C6: finalize requires summary, plan and prompts (otherwise it raises
\* OrchestratorInvalidState); a call changes no field of any orchestrator, and consecutive
\* calls return the same summary, milestones, prompts and graph_report.
C6_FinalizeIdempotent ==
    [][\A r \in DOMAIN sessions :
         (last'.op = "finalize" /\ last'.run = r) =>
            LET o == OrchOf(r)
                complete == ~IsNone(o.summary) /\ ~IsNone(o.milestones) /\ ~IsNone(o.prompts)
            IN  /\ last'.raised = "" => complete
                /\ ~complete => last'.raised = "OrchestratorInvalidState"
                /\ orch' = orch
                /\ sessions' = sessions
                /\ last'.raised = "" =>
                      /\ Val(last'.value).summary = Val(o.summary)
                      /\ Val(last'.value).milestones = Val(o.milestones)
                      /\ Val(last'.value).prompts = Val(o.prompts)
                /\ svc_finalize(svc_finalize(o).orch).value = svc_finalize(o).value]_vars

\* finalize has returned the result of a completed workflow, audited by the model
C6_Finalized ==
    /\ last.op = "finalize"
    /\ last.run \in DOMAIN sessions
    /\ last.raised = ""
    /\ Val(last.value).graph_report.notes = Some("model")
    /\ Val(last.value).prompts = Val(OrchOf(last.run).prompts)

\* C7: approve_summary(b) and approve_milestones(b) record b in their flag and change no
\* other field; a flag turns true only by its approve call with b = true, so after a
\* rejection the next stage is refused until then; and a rejection blocks neither a later
\* approval nor a regeneration.
C7_ApprovalOnlySetsFlag ==
    [][\A r \in DOMAIN sessions :
         LET id == sessions[r].orchestrator
         IN  /\ (last'.op = "approve_summary" /\ last'.run = r) =>
                   /\ ~IsNone(orch[id].summary) => last'.raised = ""
                   /\ last'.raised = "" =>
                         orch' = [orch EXCEPT ![id].summary_approved = last'.arg]
                   /\ sessions' = sessions
             /\ (last'.op = "approve_milestones" /\ last'.run = r) =>
                   /\ ~IsNone(orch[id].milestones) => last'.raised = ""
                   /\ last'.raised = "" =>
                         orch' = [orch EXCEPT ![id].milestones_approved = last'.arg]
                   /\ sessions' = sessions
             /\ (last'.op = "regenerate_summary" /\ last'.run = r) =>
                   last'.raised \in {"", "ValueError"}
             /\ (last'.op = "generate_milestones" /\ last'.run = r
                     /\ ~orch[id].summary_approved) => last'.raised # ""
             /\ (last'.op = "generate_prompts" /\ last'.run = r
                     /\ ~orch[id].milestones_approved) => last'.raised # ""
             /\ id \in DOMAIN orch' =>
                   /\ (orch'[id].summary_approved /\ ~orch[id].summary_approved) =>
                         last'.op = "approve_summary" /\ last'.run = r /\ last'.arg
                   /\ (orch'[id].milestones_approved /\ ~orch[id].milestones_approved) =>
                         last'.op = "approve_milestones" /\ last'.run = r /\ last'.arg]_vars

\* the milestones of a session with prompts have been rejected, and the prompts are kept
C7_RejectedWithPrompts ==
    /\ last.op = "approve_milestones"
    /\ last.run \in DOMAIN sessions
    /\ last.raised = ""
    /\ ~last.arg
    /\ Val(last.before).milestones_approved
    /\ ~OrchOf(last.run).milestones_approved
    /\ ~IsNone(OrchOf(last.run).prompts)

\* C8 (as amended): every service operation addressed to a run id that is not in the
\* registry leaves the registry and all sessions unchanged; discard_session returns False
\* and every other operation raises OrchestratorSessionNotFound.
C8_UnknownRunRejected ==
    [][\A r \in Targets \ DOMAIN sessions :
         (last'.run = r /\ last'.op \notin {"", "create_session", "list_sessions"}) =>
            /\ IF last'.op = "discard_session"
               THEN last'.raised = "" /\ last'.value = <<FALSE>>
               ELSE last'.raised = "OrchestratorSessionNotFound"
            /\ sessions' = sessions
            /\ orch' = orch]_vars

\* a call on an unknown run id was turned down while another session is registered
C8_NotFoundBesideSession ==
    /\ last.raised = "OrchestratorSessionNotFound"
    /\ last.run \notin DOMAIN sessions
    /\ DOMAIN sessions # {}

\* C8 (as stated): every service operation addressed to a run id that is not in the
\* registry raises OrchestratorSessionNotFound and leaves the registry and all other
\* sessions unchanged.
C8_UnknownRunRaises ==
    [][\A r \in Targets \ DOMAIN sessions :
         (last'.run = r /\ last'.op \notin {"", "create_session", "list_sessions"}) =>
            /\ last'.raised = "OrchestratorSessionNotFound"
            /\ sessions' = sessions
            /\ orch' = orch]_vars

(***************************************************************************)
(* Concurrent callers (SpecConc).                                          *)
(***************************************************************************)
\* C9: in every reachable state of a session, including those reached by interleaving
\* concurrent service calls on its run id, any stored milestone plan or prompt bundle was
\* generated from the session's current summary.
C9_ArtifactsFromCurrentSummary ==
    \A r \in DOMAIN sessions :
        /\ ~IsNone(OrchOf(r).milestones) =>
              /\ ~IsNone(OrchOf(r).summary)
              /\ Val(OrchOf(r).milestones).summary = Val(OrchOf(r).summary).gen
        /\ ~IsNone(OrchOf(r).prompts) =>
              /\ ~IsNone(OrchOf(r).summary)
              /\ Val(OrchOf(r).prompts).summary = Val(OrchOf(r).summary).gen

\* C10: under any interleaving of service calls, a step that changes the orchestrator of
\* run B (or drops it), or removes or replaces B's registry entry, is a step of a call
\* addressed to B: a call on another run id never does.
C10_SessionsIndependent ==
    [][\A b \in DOMAIN orch \cup DOMAIN sessions :
         (\/ b \in DOMAIN orch /\ (b \notin DOMAIN orch' \/ orch'[b] # orch[b])
          \/ b \in DOMAIN sessions /\ (b \notin DOMAIN sessions' \/ sessions'[b] # sessions[b]))
            => \E t \in Threads : th'[t] # th[t] /\ th[t].run = b]_vars

\* calls on two registered runs are in flight at once: one waits for its audit with its plan
\* stored, the other waits for a regenerated summary
C10_TwoRunsInFlight ==
    \E t, u \in Threads :
        /\ th[t].run # th[u].run
        /\ {th[t].run, th[u].run} \subseteq DOMAIN sessions
        /\ th[t].pc = "auditing"
        /\ ~IsNone(OrchOf(th[t].run).milestones)
        /\ th[u].pc = "summarizing"
        /\ th[u].op = "regenerate_summary"

(***************************************************************************)
(* The registry lock (SpecLock).                                           *)
(***************************************************************************)
\* the step by which thread t leaves the "with _LOCK:" block it is in
Leave(t) ==
    \/ L_GotSession(t)
    \/ L_Registered(t)
    \/ L_Touched(t)
    \/ L_Discarded(t)
    \/ L_Listed(t)

\* C11: the registry lock is never held across a model call: no thread owns _LOCK while
\* its summary, milestone, audit or prompt generation is in progress; the owner is always
\* inside a "with _LOCK:" block that it can leave at once, so a generation in flight blocks
\* no create_session, lookup, update or discard_session of any run.
C11_LockNeverSpansModelCall ==
    /\ \A t \in Threads : th[t].pc \in ModelCallPcs => lock.owner # t
    /\ lock.owner = 0 <=> lock.depth = 0
    /\ lock.owner # 0 =>
          /\ lock.depth = 1
          /\ th[lock.owner].pc \in LockedPcs
          /\ ENABLED Leave(lock.owner)
    /\ \A t \in Threads : th[t].pc \in LockedPcs => lock.owner = t

\* while one thread waits for the planner's answer on a registered run, another thread is
\* inside the lock registering a second run
C11_RegisteringDuringGeneration ==
    \E t, u \in Threads :
        /\ th[t].pc = "planning"
        /\ th[t].run \in DOMAIN sessions
        /\ th[u].pc = "registering"
        /\ th[u].run # th[t].run
        /\ lock.owner = u

(***************************************************************************)
(* The retry controllers and the fallbacks of the stage agents             *)
(* (SpecAgents).  agent.calls is the log of the model calls of the request *)
(* in flight, each with the answer it got.                                 *)
(***************************************************************************)
\* the answer is a first choice whose content is empty
EmptyContent(response) ==
    response.kind = "choice" /\ extract_message_content(response) = <<>>

\* the log holds answered calls, then at most one call in flight
OneAfterAnother(log) ==
    \A i \in 1..Len(log) : i < Len(log) => ~IsNone(log[i].response)

\* C12: the Coordinator's _request_objectives makes at most len(attempts) model calls,
\* one after another with the budgets of the list in order; it goes from attempt i to
\* attempt i+1 only when attempt i was answered with empty content and finish reason
\* "length" and a next attempt exists; it returns at the first answer with content; any
\* other answer (the call raises, no choices, empty content with a refusal or another
\* finish reason, or "length" on the last attempt) ends it with an error, no call following.
C12_CoordinatorEscalation ==
    agent.name = "coordinator" /\ config.api_key =>
        LET log == agent.calls
            n == Len(log)
        IN  /\ n >= 1 /\ n <= Len(agent.attempts)
            /\ \A i \in 1..n : log[i].max_tokens = agent.attempts[i]
            /\ OneAfterAnother(log)
            /\ \A i \in 1..(n - 1) :
                   /\ EmptyContent(Val(log[i].response))
                   /\ Val(log[i].response).finish_reason = "length"
            /\ agent.pc = "calling" => IsNone(log[n].response)
            /\ agent.pc = "done" =>
                   /\ ~IsNone(log[n].response)
                   /\ LET answer == Val(log[n].response)
                          returned == Val(agent.request).next = "return"
                      IN  /\ Val(agent.request).next \in {"return", "raise"}
                          /\ returned <=> answer.kind = "choice" /\ ~EmptyContent(answer)
                          /\ EmptyContent(answer) /\ answer.finish_reason = "length"
                                 => n = Len(agent.attempts)

\* C12 witness: the controller went through every attempt of a list of four on "length"
\* answers and returned the content of the last
C12_EscalatedToLastAttempt ==
    /\ agent.name = "coordinator"
    /\ agent.pc = "done"
    /\ Len(agent.calls) = 4
    /\ Val(agent.request).next = "return"

\* the Decomposer has finished the request for a milestone: agent.request holds its index,
\* its log of calls and how it ended, agent.steps the step it appended
DecomposerRequested ==
    agent.name = "decomposer" /\ config.api_key /\ ~IsNone(agent.request)

\* the log of the Decomposer's last finished request, and of the one in flight
DecomposerLogs ==
    IF agent.name = "decomposer" /\ config.api_key
    THEN {agent.calls} \cup (IF IsNone(agent.request) THEN {} ELSE {Val(agent.request).calls})
    ELSE {}

\* C13 (as stated, violated): the Decomposer's _generate_step_with_gpt goes on to the
\* next attempt only after an answer with empty content whose finish reason is "length";
\* every other empty-content answer is terminal.
C13_DecomposerRetriesOnlyOnLength ==
    \A log \in DecomposerLogs :
        \A i \in 1..(Len(log) - 1) :
            /\ EmptyContent(Val(log[i].response))
            /\ Val(log[i].response).finish_reason = "length"

\* the step of the last finished request, its fallback, and the JSON of its last answer
LastStep == agent.steps[Val(agent.request).index + 1]

LastFallback == fallback_step(Val(agent.payload), Val(agent.request).index)

LastJson ==
    LET log == Val(agent.request).calls
    IN  Val(Val(log[Len(log)].response).json)

\* a list of str with the blank items dropped and the others stripped
Stripped(list) ==
    SelectSeq([i \in 1..Len(list) |-> Strip(list[i])], LAMBDA item : item # <<>>)

\* valid step JSON: an object that gives a system prompt, a user prompt and at least one
\* expected artifact, none of them blank, and no negative token budget
ValidStepJson(json) ==
    /\ ~IsNone(json)
    /\ Val(json).is_dict
    /\ Strip(Val(json).system_prompt) # <<>>
    /\ Strip(Val(json).user_prompt) # <<>>
    /\ Stripped(Val(json).expected_artifacts) # <<>>
    /\ IsNone(Val(json).token_budget) \/ Val(Val(json).token_budget) >= 0

\* the Decomposer's last finished request got empty content with finish reason "length"
\* on its first call and valid step JSON on its second
LengthThenValidJson ==
    /\ DecomposerRequested
    /\ LET log == Val(agent.request).calls
       IN  /\ Len(log) >= 2
           /\ EmptyContent(Val(log[1].response))
           /\ Val(log[1].response).finish_reason = "length"
           /\ Val(log[2].response).kind = "choice"
           /\ ValidStepJson(Val(log[2].response).json)

\* C14: when the first call for a milestone is answered with empty content and finish
\* reason "length" and the second with valid step JSON, exactly two calls are made for
\* the milestone, the request returns, and the step's system_prompt, user_prompt and
\* expected_artifacts are those of the second answer (stripped of surrounding blanks),
\* not the fallback's.
C14_StepEqualsSecondResponse ==
    LengthThenValidJson =>
        /\ Len(Val(agent.request).calls) = 2
        /\ Val(agent.request).next = "return"
        /\ LastStep.system_prompt = Strip(LastJson.system_prompt)
        /\ LastStep.user_prompt = Strip(LastJson.user_prompt)
        /\ LastStep.expected_artifacts = Stripped(LastJson.expected_artifacts)
        /\ LastStep.id = LastFallback.id /\ LastStep.title = LastFallback.title

\* C14 witness: "length", then valid step JSON: two calls, and the step has the fields of
\* the answer where the fallback has others
C14_SecondAttemptUsed ==
    /\ LengthThenValidJson
    /\ LastStep.system_prompt = <<"s">>
    /\ LastStep.user_prompt = <<"u">>
    /\ LastStep.expected_artifacts = <<<<"a">>>>
    /\ LastStep.system_prompt # LastFallback.system_prompt
    /\ LastStep.expected_artifacts # LastFallback.expected_artifacts

\* C15: while the Decomposer works on the milestone at index k it holds one summary per
\* step produced so far, k of them; the first attempt for the milestone sends all k, and
\* a retry sends only the most recent min(k, 3), with a context limit no larger than the
\* first attempt's.
C15_RollingSummaries ==
    agent.name = "decomposer" /\ config.api_key =>
        LET k == Len(agent.steps)
            prior == agent.previous_summaries
            log == agent.calls
        IN  /\ Len(prior) = k
            /\ \A i \in 1..k : prior[i] = _summarize_step(agent.steps[i])
            /\ agent.pc = "calling" =>
                   /\ agent.index = k
                   /\ log[1].summaries = prior
                   /\ Len(log) = 2 =>
                          LET sent == log[2].summaries
                          IN  /\ Len(sent) = Min(k, 3)
                              /\ \A j \in 1..Len(sent) : sent[j] = prior[k - Len(sent) + j]
                              /\ log[2].context_limit <= log[1].context_limit

\* C15 witness: the fifth milestone is retried: four summaries are held, the first call
\* sent the four and the retry sends the last three, with a smaller context limit
C15_RetryOfFifthMilestone ==
    /\ agent.name = "decomposer"
    /\ agent.pc = "calling"
    /\ agent.index = 4
    /\ Len(agent.calls) = 2
    /\ Len(agent.calls[1].summaries) = 4
    /\ agent.calls[2].summaries = SubSeq(agent.previous_summaries, 2, 4)
    /\ agent.calls[2].context_limit < agent.calls[1].context_limit

\* the budgets of a list of attempts never go down
NonDecreasing(budgets) ==
    \A i \in 1..Len(budgets) : \A j \in i..Len(budgets) : budgets[i] <= budgets[j]

\* the attempt lists the two controllers build for MAX_COMPLETION_TOKENS = MAX
AttemptListsFor(MAX) ==
    LET coordinator == _resolve_coordinator_completion_token_attempts(MAX)
        decomposer == decomposer_attempts(MAX)
    IN  /\ Range(coordinator) = {900, 1500, 2200, MAX}
        /\ Len(coordinator) = Cardinality({900, 1500, 2200, MAX})
        /\ NonDecreasing(coordinator)
        /\ Len(decomposer) = 2
        /\ decomposer[1].max_tokens = MAX
        /\ decomposer[2].max_tokens >= decomposer[1].max_tokens

\* C16: for every positive MAX_COMPLETION_TOKENS the Coordinator's attempt list is the
\* sorted set of {900, 1500, 2200, MAX_COMPLETION_TOKENS} and the Decomposer's second
\* budget is at least its first, so that in both controllers no call has a smaller
\* max_tokens than the call before it.
C16_BudgetsNonDecreasing ==
    /\ config.MAX_COMPLETION_TOKENS > 0
    /\ AttemptListsFor(config.MAX_COMPLETION_TOKENS)
    /\ agent = NoAgent => \A MAX \in 1..MaxTokens : AttemptListsFor(MAX)
    /\ agent.name \in {"coordinator", "decomposer"} =>
           NonDecreasing([i \in 1..Len(agent.calls) |-> agent.calls[i].max_tokens])

\* C16 witness: with MAX_COMPLETION_TOKENS = 1 the Coordinator has gone from its first
\* budget, 1, to its second, 900
C16_RaisedFromSmallestBudget ==
    /\ config.MAX_COMPLETION_TOKENS = 1
    /\ agent.name = "coordinator"
    /\ Len(agent.calls) = 2
    /\ agent.calls[1].max_tokens = 1
    /\ agent.calls[2].max_tokens = 900

\* the answer to the last model call of the agent
LastAnswer == Val(agent.calls[Len(agent.calls)].response)

\* the answer is content that is a JSON object
JsonObject(response) ==
    /\ response.kind = "choice"
    /\ extract_message_content(response) # <<>>
    /\ ~IsNone(response.json)
    /\ Val(response.json).is_dict

\* generation failed in the Coordinator: the request raised, or its content is not
\* JSON, has no milestones list, or has no entry that is an object
CoordinatorFailed ==
    \/ ~config.api_key
    \/ LastAnswer.kind # "choice"
    \/ EmptyContent(LastAnswer)
    \/ IsNone(LastAnswer.json)
    \/ IsNone(Val(LastAnswer.json).items)
    \/ \A i \in 1..Len(Val(Val(LastAnswer.json).items)) :
           ~Val(Val(LastAnswer.json).items)[i].is_dict

\* generation failed in the Planner: no client, the call raised, no choices, no content,
\* or content that is not a JSON object
PlannerFailed ==
    \/ ~config.api_key
    \/ LastAnswer.kind # "choice"
    \/ LastAnswer.text = <<>>
    \/ IsNone(LastAnswer.json)
    \/ ~Val(LastAnswer.json).is_dict

\* generation failed for the milestone of the Decomposer's last request: it raised
DecomposerFailed == Val(agent.request).next = "raise"

\* C17: CoordinatorAgent.synthesize_objectives, PlannerAgent.generate_plan and
\* DecomposerAgent.decompose return an output and raise nothing whatever the model does
\* (no client, the call raises, no choices, empty content with any finish reason, content
\* that is not JSON, JSON of the wrong shape, valid JSON); where generation failed the
\* value returned is the heuristic fallback computed from the input: the fallback
\* objectives, the heuristic plan, and for each failed milestone its fallback step.
C17_AgentsFallBack ==
    /\ agent.pc = "done" /\ agent.name \in {"coordinator", "planner", "decomposer"} =>
           /\ ~IsNone(agent.result)
           /\ Val(agent.result).raised = ""
    /\ agent.pc = "done" /\ agent.name = "coordinator" /\ CoordinatorFailed =>
           Val(agent.result).value = _fallback_objectives(Val(agent.payload))
    /\ agent.pc = "done" /\ agent.name = "planner" /\ PlannerFailed =>
           Val(agent.result).value = _generate_with_heuristics(Val(agent.payload))
    /\ agent.name = "decomposer" =>
           /\ Len(agent.steps) <= Len(Val(agent.payload).plan.milestones)
           /\ agent.pc = "done" =>
                  /\ Val(agent.result).value = agent.steps
                  /\ Len(agent.steps) = Len(Val(agent.payload).plan.milestones)
           /\ ~config.api_key => agent.steps = fallback_steps(Val(agent.payload))
           /\ DecomposerRequested /\ DecomposerFailed => LastStep = LastFallback

\* C17 witness: the Coordinator got content that is JSON without a milestones list and
\* returned the five fallback objectives
C17_FallbackAfterWrongShape ==
    /\ agent.name = "coordinator"
    /\ agent.pc = "done"
    /\ config.api_key
    /\ ~EmptyContent(LastAnswer)
    /\ ~IsNone(LastAnswer.json)
    /\ IsNone(Val(LastAnswer.json).items)
    /\ Len(Val(agent.result).value) = 5
    /\ Val(agent.result).value = _fallback_objectives(Val(agent.payload))

\* the n smallest positive ids that are not in ids
RECURSIVE SmallestFree(_, _, _)
SmallestFree(n, ids, from) ==
    IF n = 0 THEN {}
    ELSE IF from \in ids THEN SmallestFree(n, ids, from + 1)
    ELSE {from} \cup SmallestFree(n - 1, ids, from + 1)

\* the entries of a "milestones" array that have details, as Milestones
Detailed(items) ==
    SelectSeq([idx \in 1..Len(items) |->
                  Milestone(IF IsNone(items[idx].milestoneID) THEN idx
                            ELSE Val(items[idx].milestoneID),
                            Strip(items[idx].MilestoneDetails), Strip(items[idx].Context))],
              LAMBDA m : m.details # <<>>)

\* how many milestones of the plan are this one
Count(plan, m) == Cardinality({i \in 1..Len(plan) : plan[i] = m})

\* the model's entries were usable: a JSON object with a milestones list whose ids are
\* numbers from 1 on
MilestonesParsed ==
    /\ config.api_key
    /\ JsonObject(LastAnswer)
    /\ ~IsNone(Val(LastAnswer.json).items)
    /\ \A i \in 1..Len(Val(Val(LastAnswer.json).items)) :
           LET item == Val(Val(LastAnswer.json).items)[i]
           IN  item.is_number /\ (IsNone(item.milestoneID) \/ Val(item.milestoneID) >= 1)

\* C18: generate_milestones of the MilestonesAgent returns exactly five milestones,
\* sorted by id, whatever the model gives; of the model's entries those without
\* details are dropped, the others are kept (the five of smallest id when there are more)
\* and when fewer than five remain the missing ones are added with the smallest
\* positive ids not used.
C18_ExactlyFiveMilestones ==
    agent.name = "milestones" /\ agent.pc = "done" =>
        LET plan == Val(agent.result).value
        IN  /\ Len(plan) = 5
            /\ \A i \in 1..4 : plan[i].milestone_id <= plan[i + 1].milestone_id
            /\ \A i \in 1..5 : plan[i].milestone_id >= 1 /\ plan[i].details # <<>>
            /\ MilestonesParsed =>
                   LET kept == Detailed(Val(Val(LastAnswer.json).items))
                       ids == {kept[i].milestone_id : i \in 1..Len(kept)}
                       added == SmallestFree(IF Len(kept) < 5 THEN 5 - Len(kept) ELSE 0,
                                             ids, 1)
                   IN  /\ \A i \in 1..5 :
                              \/ plan[i] \in Range(kept)
                              \/ /\ plan[i].milestone_id \in added
                                 /\ plan[i].context = <<>>
                       /\ \A id \in added : \E i \in 1..5 : plan[i].milestone_id = id
                       /\ Len(kept) <= 5 =>
                              \A m \in Range(kept) :
                                  Count(plan, m) = Count(kept, m)
                       /\ Len(kept) > 5 =>
                              \A m \in Range(kept) :
                                  \/ m \in Range(plan)
                                  \/ m.milestone_id >= plan[5].milestone_id

\* C18 witness: the model gave three entries, one of them without details: the two
\* others (ids 2 and 3) are kept and 1, 4 and 5 are added
C18_PaddedFromThree ==
    /\ agent.name = "milestones"
    /\ agent.pc = "done"
    /\ MilestonesParsed
    /\ Len(Val(Val(LastAnswer.json).items)) = 3
    /\ Len(Detailed(Val(Val(LastAnswer.json).items))) = 2
    /\ [i \in 1..5 |-> Val(agent.result).value[i].milestone_id] = <<1, 2, 3, 4, 5>>
    /\ Val(agent.result).value[4].details = <<"Milestone ", "4", ": Expand coverage">>

\* C39 (as stated, violated): the five milestones of every MilestonePlan have pairwise
\* distinct milestone ids, for every model output (including responses that repeat a
\* milestoneID or omit it), so that each milestone yields its own prompt and its own
\* coverage link.
C39_MilestoneIdsDistinct ==
    agent.name = "milestones" /\ agent.pc = "done" =>
        LET plan == Val(agent.result).value
        IN  \A i \in 1..Len(plan) : \A j \in 1..Len(plan) :
                plan[i].milestone_id = plan[j].milestone_id => i = j

(***************************************************************************)
(* The GraphStore of a session (SpecGraph).                                *)
(***************************************************************************)
\* the nodes of the session's GraphStore
Nodes == Val(graph.o).graph_store

\* the milestone_ids of every node, by node id
IdsByNode(store) == {<<store[i].id, store[i].milestone_ids>> : i \in 1..Len(store)}

\* no id twice in the list
NoDuplicate(ids) == \A i \in 1..Len(ids) : \A j \in 1..Len(ids) : ids[i] = ids[j] => i = j

\* C19: for the GraphStore in any state and any list of milestones, assign_milestones
\* applied a second time with the same milestones changes nothing: every node has the
\* milestone_ids it had after the first application, none repeated and none lost.
C19_AssignTwiceIsAssignOnce ==
    ~IsNone(graph.o) =>
        \A milestones \in GraphMilestoneLists :
            LET once == assign_milestones(Nodes, milestones)
                twice == assign_milestones(once, milestones)
            IN  /\ IdsByNode(twice) = IdsByNode(once)
                /\ twice = once
                /\ \A i \in 1..Len(once) :
                       /\ NoDuplicate(once[i].milestone_ids)
                       /\ Range(Nodes[i].milestone_ids) \subseteq Range(once[i].milestone_ids)

\* C19 witness: assign_milestones has been called twice in a row with the same
\* milestones, which link a node to two of them: the second call left the nodes as the
\* first had them
C19_AssignedTwice ==
    /\ ~IsNone(graph.last)
    /\ Val(graph.last).op = "assign_milestones"
    /\ graph.prev = graph.last
    /\ graph.before = Nodes
    /\ \E i \in 1..Len(Nodes) : Len(Nodes[i].milestone_ids) >= 2

\* the list is the beginning of the other
IsPrefix(short, long) == Len(short) <= Len(long) /\ SubSeq(long, 1, Len(short)) = short

\* every node of the store is still there, at its place, with the ids it had as the
\* beginning of its list
AppendOnly(before, after) ==
    /\ Len(before) <= Len(after)
    /\ \A i \in 1..Len(before) :
           /\ after[i].id = before[i].id
           /\ after[i].name = before[i].name
           /\ IsPrefix(before[i].milestone_ids, after[i].milestone_ids)
           /\ before[i].milestone_ids # <<>> => after[i].milestone_ids # <<>>

\* the call just made replaced the store: ingest_blueprint or regenerate_summary
StoreReplaced == Val(graph'.last).op \in {"ingest_blueprint", "regenerate_summary"}

\* C20: within one GraphStore, over any sequence of load_components, upsert_node,
\* assign_milestones and set_assignment, and of generate_milestones of its orchestrator,
\* no node is removed and every node's milestone_ids only grows at its end, without a
\* repeated id, so that a covered node stays covered; only ingest_blueprint and
\* regenerate_summary, which replace the store, clear the lists.
C20_MilestoneIdsAppendOnly ==
    [][/\ ~IsNone(graph.o) /\ ~StoreReplaced =>
              AppendOnly(Nodes, Val(graph'.o).graph_store)
       /\ \A i \in 1..Len(Val(graph'.o).graph_store) :
              NoDuplicate(Val(graph'.o).graph_store[i].milestone_ids)]_vars

\* C20 witness: generate_milestones was called again on a store with a covered node, and
\* the node has the ids it had and one more
C20_SecondPlanAccumulates ==
    /\ ~IsNone(graph.last)
    /\ Val(graph.last).op = "generate_milestones"
    /\ Len(graph.before) = Len(Nodes)
    /\ \E i \in 1..Len(Nodes) :
           /\ graph.before[i].milestone_ids # <<>>
           /\ Len(Nodes[i].milestone_ids) > Len(graph.before[i].milestone_ids)
           /\ IsPrefix(graph.before[i].milestone_ids, Nodes[i].milestone_ids)

\* the names of the nodes that hold a milestone id, and of those that hold none
CoveredNames(store) == {store[i].name : i \in {j \in 1..Len(store) : store[j].milestone_ids # <<>>}}
UncoveredNames(store) == {store[i].name : i \in {j \in 1..Len(store) : store[j].milestone_ids = <<>>}}

\* ascending by code point, as sorted() leaves a list of str
SortedByName(names) == \A i \in 1..Len(names) : \A j \in 1..Len(names) : i < j => ~StrLess(names[j], names[i])

\* C21: in every state of a GraphStore, snapshot() lists in covered_nodes exactly the
\* names of the nodes with a milestone id and in uncovered_nodes exactly the names of the
\* nodes with none, each name once; the two lists share no name, together hold every
\* node's name, and each is sorted by name; and a call of snapshot() changes no node.
C21_SnapshotPartitions ==
    /\ ~IsNone(graph.o) =>
          LET snap == snapshot(Nodes)
          IN  /\ Range(snap.covered_nodes) = CoveredNames(Nodes)
              /\ Range(snap.uncovered_nodes) = UncoveredNames(Nodes)
              /\ Range(snap.covered_nodes) \cap Range(snap.uncovered_nodes) = {}
              /\ Range(snap.covered_nodes) \cup Range(snap.uncovered_nodes)
                     = {Nodes[i].name : i \in 1..Len(Nodes)}
              /\ Len(snap.covered_nodes) + Len(snap.uncovered_nodes) = Len(Nodes)
              /\ SortedByName(snap.covered_nodes)
              /\ SortedByName(snap.uncovered_nodes)
    /\ (~IsNone(graph.last) /\ Val(graph.last).op = "snapshot") =>
          /\ graph.before = Nodes
          /\ Val(graph.last).arg = snapshot(Nodes)

\* C21 witness: snapshot() was called on a store whose nodes are not in the order of
\* their names, with a covered node and two uncovered ones
C21_SnapshotOfUnorderedStore ==
    /\ ~IsNone(graph.last)
    /\ Val(graph.last).op = "snapshot"
    /\ Len(Val(graph.last).arg.covered_nodes) >= 1
    /\ Len(Val(graph.last).arg.uncovered_nodes) >= 2
    /\ ~SortedByName([i \in 1..Len(Nodes) |-> Nodes[i].name])

\* the snapshot the session holds
Held == Val(Val(graph.o).graph_snapshot)

\* the audit's lists hold what the baseline's hold, each name once, in name order
Extends(baseline, result) ==
    /\ Range(baseline.covered_nodes) \subseteq Range(result.covered_nodes)
    /\ Range(baseline.uncovered_nodes) \subseteq Range(result.uncovered_nodes)
    /\ NoDuplicate(result.covered_nodes)
    /\ NoDuplicate(result.uncovered_nodes)
    /\ SortedByName(result.covered_nodes)
    /\ SortedByName(result.uncovered_nodes)

\* C22: for every store and every answer of the audit model, failures included, the
\* snapshot GraphAuditAgent.audit returns has in covered_nodes every covered name of
\* the baseline snapshot and in uncovered_nodes every uncovered name of it, each list
\* without a repeated name and sorted; without a usable answer both lists are the
\* baseline's.  The snapshot generate_milestones stores is such an audit of the store.
C22_AuditExtendsBaseline ==
    ~IsNone(graph.o) =>
        /\ \A response \in GraphAuditResponses :
               LET baseline == snapshot(Nodes)
                   result == audit(Nodes, response)
               IN  /\ Extends(baseline, result)
                   /\ IsNone(response) =>
                          /\ result.covered_nodes = baseline.covered_nodes
                          /\ result.uncovered_nodes = baseline.uncovered_nodes
        /\ (Val(graph.last).op = "generate_milestones" /\ ~IsNone(Val(graph.o).graph_snapshot)) =>
               Extends(snapshot(Nodes), Held)

\* C22 witness: generate_milestones stored an audit in which the model added a covered
\* name to a baseline that had covered and uncovered names
C22_ModelAddedCoveredName ==
    /\ ~IsNone(graph.o)
    /\ Val(graph.last).op = "generate_milestones"
    /\ ~IsNone(Val(graph.o).graph_snapshot)
    /\ snapshot(Nodes).covered_nodes # <<>>
    /\ snapshot(Nodes).uncovered_nodes # <<>>
    /\ Range(Held.covered_nodes) \ Range(snapshot(Nodes).covered_nodes) # {}

\* the names of the nodes of a session's graph
NodeNames(o) == {o.graph_store[i].name : i \in 1..Len(o.graph_store)}

\* C23: every GraphCoverageSnapshot a session holds, and the one get_milestones and
\* finalize hand out (the held one, or a fresh one when none is held), is a partition
\* of the names of the session's nodes: covered_nodes and uncovered_nodes share no name
\* and together hold exactly the names of the nodes, whatever the audit model answered.
C23_SnapshotsArePartitions ==
    \A r \in DOMAIN sessions :
        LET snap == current_graph_snapshot(OrchOf(r))
        IN  /\ Range(snap.covered_nodes) \cap Range(snap.uncovered_nodes) = {}
            /\ Range(snap.covered_nodes) \cup Range(snap.uncovered_nodes) = NodeNames(OrchOf(r))

\* one node per slug, and the id of a node is the slug of its name
SlugIsIdentity(store) ==
    /\ \A i \in 1..Len(store) : \A j \in 1..Len(store) : store[i].id = store[j].id => i = j
    /\ \A i \in 1..Len(store) : store[i].id = Slugify(store[i].name)

\* the nodes of the store are kept with their id, name and milestone_ids
NodesKept(before, after) ==
    /\ Len(before) <= Len(after)
    /\ \A i \in 1..Len(before) :
           /\ after[i].id = before[i].id
           /\ after[i].name = before[i].name
           /\ after[i].milestone_ids = before[i].milestone_ids

\* C24: over any sequence of load_components and upsert_node (and of the other calls on
\* the store) the store holds at most one node per slug and each node's id is the slug
\* of its name; load_components and upsert_node keep every node with its name and its
\* milestone_ids, and upsert_node of a name whose slug is already a node adds none.
C24_SlugIsNodeIdentity ==
    [][/\ SlugIsIdentity(Val(graph'.o).graph_store)
       /\ (~IsNone(graph.o) /\ Val(graph'.last).op \in {"load_components", "upsert_node"}) =>
              NodesKept(Nodes, Val(graph'.o).graph_store)
       /\ (~IsNone(graph.o) /\ Val(graph'.last).op = "upsert_node"
              /\ Slugify(Val(graph'.last).arg) \in NodeIds(Nodes)) =>
              Len(Val(graph'.o).graph_store) = Len(Nodes)]_vars

\* C24 witness: upsert_node("API") was called on a store whose node "Api", of the same
\* slug, is linked to a milestone: the node is there with its name and its ids
C24_UpsertOfExistingSlug ==
    /\ ~IsNone(graph.o)
    /\ graph.last = GraphCall("upsert_node", API)
    /\ Len(graph.before) = Len(Nodes)
    /\ \E i \in 1..Len(Nodes) :
           /\ Nodes[i].id = Slugify(API)
           /\ Nodes[i].name = Api
           /\ Nodes[i].milestone_ids # <<>>
           /\ graph.before[i] = Nodes[i]

(***************************************************************************)
(* The objectives of the Coordinator (SpecAgents).                         *)
(***************************************************************************)
\* the Coordinator has returned: the objectives of its output
CoordinatorDone == agent.name = "coordinator" /\ agent.pc = "done"
Objectives == Val(agent.result).value

\* the ids m01..m05, in order
FiveIds ==
    <<<<"m", "0", "1">>, <<"m", "0", "2">>, <<"m", "0", "3">>, <<"m", "0", "4">>,
      <<"m", "0", "5">>>>

\* C25: with no model configured, synthesize_objectives returns, for every payload and
\* without a model call, exactly five objectives with the ids m01..m05 and the orders
\* 0..4; m01 has no dependencies and each of m02..m05 depends on exactly the ids before
\* it, in order.
C25_FallbackSequence ==
    CoordinatorDone /\ ~config.api_key =>
        /\ agent.calls = <<>>
        /\ Val(agent.result).raised = ""
        /\ Len(Objectives) = 5
        /\ \A i \in 1..5 :
               /\ Objectives[i].id = FiveIds[i]
               /\ Objectives[i].order = i - 1
               /\ Objectives[i].dependencies = SubSeq(FiveIds, 1, i - 1)

\* C25 witness: the Coordinator returned for a creative payload without an API key
C25_ReturnedWithoutModel ==
    /\ CoordinatorDone
    /\ ~config.api_key
    /\ Val(agent.payload).style = "creative"
    /\ Len(Objectives) = 5
    /\ Objectives[5].dependencies = SubSeq(FiveIds, 1, 4)

\* the Coordinator returned what it parsed from the model's content: the entries of the
\* content's "milestones" list, of which at least one is an object
Parsed == CoordinatorDone /\ config.api_key /\ ~CoordinatorFailed
Entries == Val(Val(LastAnswer.json).items)

\* C26: whatever the model answers, valid JSON with fewer than four or more than seven
\* milestone entries included, synthesize_objectives returns between four and seven
\* objectives.
C26_FourToSevenObjectives ==
    CoordinatorDone => Len(Objectives) >= 4 /\ Len(Objectives) <= 7

\* the ids of the objectives
ObjectiveIds == {Objectives[i].id : i \in 1..Len(Objectives)}

\* the ids of the objectives of EntriesEight in their final order, and the dependencies
\* each has: of the references x, "X ", a, p, x of b the ids x and a, once each, in the
\* order they are first seen
EightIds ==
    <<<<"a">>, <<"b">>, <<"d">>, <<"m", "0", "4">>, <<"m", "0", "5">>, <<"x">>,
      <<"m", "0", "7">>, <<"m", "0", "8">>>>
EightDependencies ==
    <<<<<<"b">>, <<"x">>>>, <<<<"x">>, <<"a">>>>, <<<<"m", "0", "5">>, <<"m", "0", "4">>>>,
      <<>>, <<>>, <<>>, <<>>, <<>>>>

\* C27: in every set of objectives _parse_objectives returns, whatever the raw ids and
\* the references, every id among an objective's dependencies is the id of an objective
\* of the set, is not the objective's own id, and is there once; the dependencies are in
\* the order in which the references are first seen.
C27_DependenciesValid ==
    Parsed =>
        /\ \A i \in 1..Len(Objectives) :
               /\ Range(Objectives[i].dependencies) \subseteq ObjectiveIds
               /\ Objectives[i].id \notin Range(Objectives[i].dependencies)
               /\ NoDuplicate(Objectives[i].dependencies)
        /\ Entries = EntriesEight =>
               /\ [i \in 1..Len(Objectives) |-> Objectives[i].id] = EightIds
               /\ [i \in 1..Len(Objectives) |-> Objectives[i].dependencies] = EightDependencies

\* C27 witness: the objectives of EntriesEight were returned: references that are
\* repeated, to the entry itself and to no entry were dropped
C27_ReferencesResolved ==
    /\ Parsed
    /\ Entries = EntriesEight
    /\ Objectives[2].dependencies = <<<<"x">>, <<"a">>>>

\* C28: in every set of objectives the Coordinator returns, each dependency is the id of
\* an objective that is not later in the final order than the objective that declares
\* it, and no two objectives depend on each other.
C28_DependenciesAcyclic ==
    CoordinatorDone =>
        \A i \in 1..Len(Objectives) : \A j \in 1..Len(Objectives) :
            Objectives[j].id \in Range(Objectives[i].dependencies) =>
               /\ \E k \in 1..i : Objectives[k].id = Objectives[j].id
               /\ Objectives[i].id \notin Range(Objectives[j].dependencies)

\* C29: whatever the model answers, no two objectives the Coordinator returns have the
\* same id, also when two raw ids sanitize to one slug or a raw id is the positional id
\* of another entry.
C29_ObjectiveIdsUnique ==
    CoordinatorDone =>
        \A i \in 1..Len(Objectives) : \A j \in 1..Len(Objectives) :
            Objectives[i].id = Objectives[j].id => i = j

\* the positions (from 0) of the entries that are objects
DictPositions == {idx \in 0..(Len(Entries) - 1) : Entries[idx + 1].is_dict}

\* the order an entry declares: a missing, unusable or negative one is its position
DeclaredOrder(idx) ==
    IF ~IsNone(Entries[idx + 1].order) /\ Val(Entries[idx + 1].order) >= 0
    THEN Val(Entries[idx + 1].order)
    ELSE idx

\* the id an entry gets
EntryId(idx) ==
    _sanitize_id(IF Entries[idx + 1].id # <<>> THEN Entries[idx + 1].id
                 ELSE <<"m">> \o TwoDigits(idx + 1), Some(idx))

\* (order, id) of one entry is not above that of the other
KeyNotAbove(a, b) ==
    \/ DeclaredOrder(a) < DeclaredOrder(b)
    \/ DeclaredOrder(a) = DeclaredOrder(b) /\ ~StrLess(EntryId(b), EntryId(a))

\* the objectives as entries of a response: their ids, orders and dependencies
AsEntries(objectives) ==
    [i \in 1..Len(objectives) |->
        [is_dict |-> TRUE, id |-> objectives[i].id, title |-> objectives[i].title,
         objective |-> objectives[i].objective,
         success_criteria |-> objectives[i].success_criteria,
         dependencies |-> objectives[i].dependencies, order |-> Some(objectives[i].order)]]

ModelOrFallback(given, fallback) == IF given # <<>> THEN given ELSE fallback

\* C35 (as stated, violated): when the Decomposer accepts a model response, each field of
\* the resulting PromptStep (system_prompt, user_prompt, expected_artifacts,
\* acceptance_criteria, inputs, outputs, tools, token_budget) is the model's value if that
\* value is present and valid, and otherwise exactly the precomputed fallback step's
\* value for that field, for every milestone index.
C35_FieldsFromModelOrFallback ==
    (DecomposerRequested /\ Val(agent.request).next = "return") =>
        /\ LastStep.system_prompt =
               ModelOrFallback(Strip(LastJson.system_prompt), LastFallback.system_prompt)
        /\ LastStep.user_prompt =
               ModelOrFallback(Strip(LastJson.user_prompt), LastFallback.user_prompt)
        /\ LastStep.expected_artifacts =
               ModelOrFallback(Stripped(LastJson.expected_artifacts),
                               LastFallback.expected_artifacts)
        /\ LastStep.acceptance_criteria =
               ModelOrFallback(Stripped(LastJson.acceptance_criteria),
                               LastFallback.acceptance_criteria)
        /\ LastStep.outputs =
               ModelOrFallback(Stripped(LastJson.outputs), LastFallback.outputs)
        /\ LastStep.tools = ModelOrFallback(Stripped(LastJson.tools), LastFallback.tools)
        /\ LastStep.token_budget =
               IF ~IsNone(LastJson.token_budget) /\ Val(LastJson.token_budget) > 0
               THEN Val(LastJson.token_budget) ELSE LastFallback.token_budget
        /\ LastStep.inputs = ModelOrFallback(Stripped(LastJson.inputs), LastFallback.inputs)

(***************************************************************************)
(* Functions checked on their own (SpecFunctions).                         *)
(***************************************************************************)
\* the function that returned, its arguments and what it returned
Called(name) == agent.name = name /\ agent.pc = "done"
Arguments == Val(agent.payload)
Result == Val(agent.result)

\* C31: for every string s over lower and upper case letters, digits, the hyphen and
\* other characters and every index i (or none), _sanitize_id applied to
\* _sanitize_id(s, i) with the same i returns _sanitize_id(s, i); also when s has an
\* empty slug and the result is the positional id, "m" and i+1 as two digits.
C31_SanitizeIdempotent ==
    Called("_sanitize_id") =>
        /\ Result = _sanitize_id(Arguments.candidate, Arguments.index)
        /\ _sanitize_id(Result, Arguments.index) = Result

\* C31 witness: a candidate without a letter or digit was sanitized at position 11 and
\* the positional id m12 was returned
C31_PositionalIdReturned ==
    /\ Called("_sanitize_id")
    /\ Arguments.candidate = <<"!", "-", "-", "!">>
    /\ Arguments.index = Some(11)
    /\ Result = <<"m", "1", "2">>

\* the index, counted from 0, of the last line break of a text; -1 without one
LastBreak(text) ==
    IF \A i \in 1..Len(text) : text[i] # "\n" THEN -1
    ELSE (CHOOSE i \in 1..Len(text) :
              text[i] = "\n" /\ \A j \in (i + 1)..Len(text) : text[j] # "\n") - 1

\* the joined text of the call and its first Limit characters
Joined == JoinParagraphs(Arguments.chunks)
Limit == Arguments.limit
FirstL == SubSeq(Joined, 1, Limit)

\* C32: for every joined text and ceiling L, the output has length at most L and is a
\* prefix of the joined text; a text of length at most L is returned unchanged; when the
\* text exceeds L and the last line break within the first L characters lies at an index
\* (counted from 0) strictly after 60% of L, the output ends at that line break (the
\* break itself left out), otherwise it is the hard cut of exactly L characters.
C32_BudgetedStrictlyAfterSixtyPercent ==
    Called("_compress_chunks") =>
        /\ Len(Result) <= Limit
        /\ IsPrefix(Result, Joined)
        /\ Len(Joined) <= Limit => Result = Joined
        /\ Len(Joined) > Limit =>
              IF 10 * LastBreak(FirstL) > 6 * Limit
              THEN Result = SubSeq(Joined, 1, LastBreak(FirstL))
              ELSE Result = FirstL

\* C32 witness: "xxx" and "x" were budgeted to 5 characters; the last line break of
\* "xxx\n\n" is at index 4, after 60% of 5, and the output ends there
C32_CutAtLineBreak ==
    /\ Called("_compress_chunks")
    /\ Arguments.chunks = <<<<"x", "x", "x">>, <<"x">>>>
    /\ Limit = 5
    /\ Result = <<"x", "x", "x", "\n">>

\* C32 as stated: the line break is taken when it lies no earlier than 60% of L
C32_BudgetedNoEarlierThanSixtyPercent ==
    Called("_compress_chunks") =>
        /\ Len(Result) <= Limit
        /\ IsPrefix(Result, Joined)
        /\ Len(Joined) <= Limit => Result = Joined
        /\ Len(Joined) > Limit =>
              IF 10 * LastBreak(FirstL) >= 6 * Limit
              THEN Result = SubSeq(Joined, 1, LastBreak(FirstL))
              ELSE Result = FirstL

\* the rules of the six-rule checklist that a step violates
ViolatedRules(step) ==
    {rule \in 1..6 :
        \/ rule = 1 /\ Len(step.inputs) = 0
        \/ rule = 2 /\ Len(step.outputs) = 0
        \/ rule = 3 /\ Len(step.cited_artifacts) = 0
        \/ rule = 4 /\ step.token_budget > 1200
        \/ rule = 5 /\ ~Measurable(step.acceptance_criteria)
        \/ rule = 6 /\ WordCount(step.system_prompt) > 250}

\* the score, in hundredths, that is 1.0 minus 0.15 per violated rule, floored at 0.0
RubricOf(step) ==
    IF 15 * Cardinality(ViolatedRules(step)) >= 100 THEN 0
    ELSE 100 - 15 * Cardinality(ViolatedRules(step))

Low == {i \in 1..Len(Result.steps) : Val(Result.steps[i].rubric_score) < 70}
KthLow(k) == CHOOSE i \in Low : Cardinality({j \in Low : j <= i}) = k

\* C34: for every list of reviewed steps, the report's concerns contain exactly one
\* entry, in step order, for each step whose rubric score is below 0.7, naming the step
\* and its suggested edits, and nothing else; if no step scores below 0.7 (including the
\* empty list) the concerns are exactly the single 'no blocking issues' sentinel, so the
\* concerns list is never empty.
C34_ConcernsPerLowStep ==
    Called("review") =>
        LET concerns == Result.report.concerns
        IN  /\ concerns # <<>>
            /\ Low = {} => concerns = <<NoBlockingIssues>>
            /\ Low # {} =>
                  /\ Len(concerns) = Cardinality(Low)
                  /\ \A k \in 1..Len(concerns) :
                        /\ IsPrefix(Result.steps[KthLow(k)].id, concerns[k])
                        /\ concerns[k] = Result.steps[KthLow(k)].id
                                         \o <<" needs clarification: ">>
                                         \o Val(Result.steps[KthLow(k)].suggested_edits)

\* C34 witness: of three reviewed steps the first and the third scored below 0.7 and the
\* second exactly 0.7; the concerns name the first and the third, in that order
C34_TwoOfThreeConcerns ==
    /\ Called("review")
    /\ Len(Result.steps) = 3
    /\ Val(Result.steps[2].rubric_score) = 70
    /\ Low = {1, 3}
    /\ Len(Result.report.concerns) = 2
    /\ IsPrefix(StepId(0), Result.report.concerns[1])
    /\ IsPrefix(StepId(2), Result.report.concerns[2])

(***************************************************************************)
(* The state of a session under a single caller (Spec).                    *)
(***************************************************************************)
\* the order of the status flags: nothing is approved or built on what is not there
FlagsOrdered(status) ==
    /\ status.summary_approved => status.summary_ready
    /\ status.milestones_ready => status.summary_ready
    /\ status.milestones_approved => status.milestones_ready
    /\ status.prompts_ready => status.milestones_ready

\* C36: in every reachable state of a session (any sequence of ingest, regenerate,
\* approvals, generations and finalize, including failed calls), the exposed status flags
\* satisfy: summary_approved implies summary_ready, milestones_ready implies
\* summary_ready, milestones_approved implies milestones_ready, and prompts_ready implies
\* milestones_ready; describe_session and list_sessions expose these flags.
C36_StatusFlagsOrdered ==
    /\ \A id \in DOMAIN orch : FlagsOrdered(Status(orch[id]))
    /\ \A r \in DOMAIN sessions :
          /\ (last.op = "describe_session" /\ last.run = r /\ last.raised = "") =>
                 /\ Val(last.value).status = Status(OrchOf(r))
                 /\ FlagsOrdered(Val(last.value).status)
          /\ last.op = "list_sessions" => FlagsOrdered(Val(last.value)[r].status)

\* C36 witness: a regeneration has reset a session that had an approved plan and prompts;
\* the flags downstream of the summary are all down again
C36_ResetAfterPrompts ==
    /\ last.op = "regenerate_summary"
    /\ last.run \in DOMAIN sessions
    /\ last.raised = ""
    /\ Val(last.before).milestones_approved
    /\ Val(last.before).prompts_ready
    /\ Status(OrchOf(last.run)) =
           [summary_ready |-> TRUE, summary_approved |-> FALSE, milestones_ready |-> FALSE,
            milestones_approved |-> FALSE, prompts_ready |-> FALSE]

\* C37 (as stated, violated): the OrchestratorResult returned by finalize is internally
\* consistent for every sequence of operations: its prompts were generated from the
\* milestone plan contained in the same result (one prompt per milestone of that plan,
\* with matching milestone ids), including when generate_milestones was called again
\* after prompts had been generated.
C37_ResultPromptsFromResultPlan ==
    (last.op = "finalize" /\ last.raised = "") =>
        LET result == Val(last.value)
        IN  /\ result.prompts.plan = result.milestones.gen
            /\ result.prompts.milestone_ids =
                   SortedIds([i \in 1..Len(result.milestones.milestones) |->
                                 result.milestones.milestones[i].milestone_id])

\* C38: every session visible in the registry already has a summary: create_session
\* inserts the session only after ingest_blueprint has returned, so for every registered
\* run id summary_ready is true in every reachable state, and a create_session whose
\* blueprint is rejected (empty text) registers nothing.
C38_RegisteredHasSummary ==
    [][/\ \A r \in DOMAIN sessions' :
              /\ sessions'[r].orchestrator \in DOMAIN orch'
              /\ Status(orch'[sessions'[r].orchestrator]).summary_ready
       /\ (last'.op = "create_session" /\ last'.raised # "") =>
              sessions' = sessions /\ orch' = orch
       /\ DOMAIN sessions' \ DOMAIN sessions # {} =>
              last'.op = "create_session" /\ last'.raised = ""]_vars

\* C38 witness: create_session was handed a blank text; it raised and the registry is
\* empty
C38_BlankBlueprintRejected ==
    /\ last.op = "create_session"
    /\ last.raised = "ValueError"
    /\ last.msg = "empty_blueprint"
    /\ sessions = <<>>
    /\ orch = <<>>

\* approve_summary(true), generate_milestones, approve_milestones(true), generate_prompts
\* and finalize called in turn on an orchestrator, each on what the one before left,
\* succeed one after the other, and finalize returns what they built; the model
\* collaborators return this plan and this audit answer
Completes(o, gen, milestones, response) ==
    \A approved \in {svc_approve_summary(o, TRUE)} :
    \A planned \in {svc_generate_milestones(approved.orch, gen, milestones, response)} :
    \A accepted \in {svc_approve_milestones(planned.orch, TRUE)} :
    \A prompted \in {svc_generate_prompts(accepted.orch)} :
    \A finalized \in {svc_finalize(prompted.orch)} :
        /\ approved.raised = ""
        /\ planned.raised = ""
        /\ accepted.raised = ""
        /\ prompted.raised = ""
        /\ finalized.raised = ""
        /\ Val(finalized.value).milestones.gen = gen
        /\ Val(finalized.value).prompts = Val(prompted.value)

\* the five calls succeed from the state o of a session, whatever plan (a new one) and
\* audit answer the model collaborators return
SessionCompletes(o) ==
    \A milestones \in MilestoneLists, response \in AuditResponses :
        Completes(o, Smallest(PlanRefsOf(o)), milestones, response)

\* C40: the workflow has no dead end: from every reachable state of a registered session,
\* provided the model collaborators always return, the sequence approve_summary(true),
\* generate_milestones, approve_milestones(true), generate_prompts, finalize succeeds step
\* by step, so the Finalized state is reachable from every state.  No session is
\* registered at the start, so the states of a session are those a step registers it in
\* or changes it to.
C40_NoDeadEnd ==
    [][\A r \in DOMAIN sessions' :
           \A after \in {orch'[sessions'[r].orchestrator]} :
               (r \notin DOMAIN sessions \/ after # OrchOf(r)) => SessionCompletes(after)]_vars

\* C40 witness: the plan of a session that has prompts was rejected, so generate_prompts
\* is refused there; the five calls made from this state succeed
C40_CompletesAfterRejection ==
    /\ last.op = "approve_milestones"
    /\ last.run \in DOMAIN sessions
    /\ last.raised = ""
    /\ ~last.arg
    /\ Status(OrchOf(last.run)).prompts_ready
    /\ svc_generate_prompts(OrchOf(last.run)).raised = "OrchestratorInvalidState"
    /\ SessionCompletes(OrchOf(last.run))
====
